---- MODULE Spec2Model ----
(***************************************************************************)
(* Study-Boards: the watermark compositor addWatermarkToPDF.               *)
(*                                                                         *)
(* The repository holds three copies of the compositor: the edge function  *)
(* watermark-pdf, the current client service                               *)
(* (frontend/src/services/watermarkService.ts) and an earlier client       *)
(* service.  One invocation is modelled step by step (load, embedFont,     *)
(* first-page measurement, one drawText loop per page, save, and the       *)
(* catch block or the propagation of an exception).                        *)
(*                                                                         *)
(* Around it: the serve handler of the edge function (preflight,           *)
(* authentication, body validation, source selection, the call of the      *)
(* edge compositor, the responses), and the frontend's edge-function: URLs *)
(* (getEdgeFunctionUrl, getSignedUrl, convertToWatermarkedUrl,             *)
(* parseEdgeFunctionUrl).  Strings the code takes apart are sequences of   *)
(* pieces of text.                                                         *)
(*                                                                         *)
(* Numbers: the code computes in IEEE doubles.  Lengths are modelled as    *)
(* fixed-point integers, hundredths of a PDF point, every product rounded  *)
(* down; 0.06, 0.7 and 0.1 are the fractions 6/100, 7/10, 1/10 and         *)
(* cos 45 = sin 45 is 7071/10000.  Colours and opacity are in tenths.      *)
(***************************************************************************)
EXTENDS Integers, Sequences, FiniteSets, TLC

\* ------------------------------------------------------------- bounds

\* Longest document (pages) an invocation is given.
MaxPages == 3

\* Invocations in one behaviour (the first, then repeats and re-applications).
MaxCalls == 2

\* Edge-function loads one viewer session starts.
MaxLoads == 3

\* Concurrent callers of the progress methods.
MaxCallers == 2

\* ------------------------------------------------------------- numbers

Pt(n) == n * 100

Min(a, b) == IF a < b THEN a ELSE b

Max(a, b) == IF a > b THEN a ELSE b

RECURSIVE SqrtBetween(_, _, _)
SqrtBetween(n, lo, hi) ==
    IF lo >= hi THEN lo
    ELSE LET mid == (lo + hi + 1) \div 2
         IN  IF mid * mid <= n THEN SqrtBetween(n, mid, hi)
                               ELSE SqrtBetween(n, lo, mid - 1)

\* Math.sqrt on fixed-point squares (rounded down).
Sqrt(n) == SqrtBetween(n, 0, 46340)

\* Math.ceil(a / b) for a >= 0, b > 0.
Ceil(a, b) == (a + b - 1) \div b

\* ------------------------------------------------------------- texts and font metrics

DEFAULT_WATERMARK_TEXT == "StudyBoards - Confidential"

\* A watermark text the caller passes, and one the build environment sets.
CustomText == "CONFIDENTIAL"

EnvText == "INTERNAL USE ONLY"

\* The characters of a text (TLA+ strings are atomic).
Glyphs(t) ==
    CASE t = "" -> << >>
      [] t = "StudyBoards - Confidential" ->
            << "S", "t", "u", "d", "y", "B", "o", "a", "r", "d", "s", " ", "-",
               " ", "C", "o", "n", "f", "i", "d", "e", "n", "t", "i", "a", "l" >>
      [] t = "CONFIDENTIAL" ->
            << "C", "O", "N", "F", "I", "D", "E", "N", "T", "I", "A", "L" >>
      [] t = "INTERNAL USE ONLY" ->
            << "I", "N", "T", "E", "R", "N", "A", "L", " ", "U", "S", "E", " ",
               "O", "N", "L", "Y" >>

\* Advance width of a Helvetica-Bold glyph, in 1/1000 of the font size.
GlyphWidth(g) ==
    CASE g \in {" ", "I", "i", "l"} -> 278
      [] g \in {"-", "f", "t"} -> 333
      [] g = "r" -> 389
      [] g \in {"a", "e", "s", "y"} -> 556
      [] g \in {"d", "n", "o", "u", "F", "L", "T"} -> 611
      [] g \in {"E", "S", "Y"} -> 667
      [] g \in {"A", "B", "C", "D", "N", "R", "U"} -> 722
      [] g = "O" -> 778

RECURSIVE SumWidths(_)
SumWidths(gs) == IF gs = << >> THEN 0 ELSE GlyphWidth(Head(gs)) + SumWidths(Tail(gs))

\* font.widthOfTextAtSize(text, size): the glyph widths summed, scaled by size/1000.
widthOfTextAtSize(t, size) == (SumWidths(Glyphs(t)) * size) \div 1000

\* ------------------------------------------------------------- documents

\* The three copies of addWatermarkToPDF.
Impls == {"edge", "client", "clientOld"}

\* Page sizes (width, height) of the input documents; the second doubles the first.
PageSizes == { << Pt(200), Pt(300) >>, << Pt(400), Pt(600) >> }

\* A page of a document not yet stamped: its size, its original content
\* (named by its position in the input) and the text operators drawn over it.
NewPage(i, size) == [width |-> size[1], height |-> size[2], body |-> i, stamps |-> << >>]

\* pdfBytes: an encoded PDF (its pages, the number of font objects in the
\* file), or bytes that are no PDF (a 0-byte input, random bytes).
PdfBytes(pages, fonts) == [kind |-> "pdf", pages |-> pages, fonts |-> fonts]

NoBytes == [kind |-> "none", pages |-> << >>, fonts |-> 0]

NotPdf == { [kind |-> k, pages |-> << >>, fonts |-> 0] : k \in {"empty", "garbage"} }

InputPdfs ==
    { PdfBytes([i \in 1..Len(sizes) |-> NewPage(i, sizes[i])], 0) :
        sizes \in UNION { [1..n -> PageSizes] : n \in 0..MaxPages } }

\* The texts a caller passes: the client services take an optional text, the
\* edge compositor is called with the text the handler has resolved.
WatermarkArgs(im) ==
    IF im = "edge" THEN {CustomText, DEFAULT_WATERMARK_TEXT} ELSE {"", CustomText}

\* ------------------------------------------------------------- state

VARIABLES
    env,            \* process.env.REACT_APP_WATERMARK_TEXT ("" when unset)
    impl,           \* the copy of addWatermarkToPDF that is called
    calls,          \* invocations started so far
    pdfBytes,       \* argument: the input bytes
    watermarkText,  \* argument: the watermark text ("" when absent)
    pc,             \* position of the invocation
    text,           \* the text measured and stamped
    pdfDoc,         \* the parsed document: pages and font objects
    font,           \* the embedded font handle
    fontSize,
    textWidth,
    textHeight,
    pageIdx,        \* next page of pages.forEach
    raised,         \* the error the failing step raised
    returned,       \* the bytes the caller receives
    thrown,         \* the error the caller observes
    last            \* the previous invocation: its arguments and outcome

\* The watermark-pdf edge function serving one request.
VARIABLES
    req,            \* the request: method, Authorization header, body
    denoEnv,        \* Deno.env: WATERMARK_TEXT, S3_BUCKET_NAME ("" when unset)
    hpc,            \* position of the handler
    user,           \* what supabase.auth.getUser() resolved to
    watermark,      \* the watermark text the handler resolved
    caught,         \* the error the handler's catch block received
    resp,           \* the response
    trace           \* the calls the handler has made on the outside world

handlerVars == << req, denoEnv, hpc, user, watermark, caught, resp, trace >>

\* The frontend building and parsing an edge-function: URL.
VARIABLES
    reactEnv,       \* process.env: REACT_APP_SUPABASE_FUNCTIONS_URL, REACT_APP_SUPABASE_URL
    upc,            \* position of the frontend
    payload,        \* the S3 key or PDF URL to be viewed
    url,            \* the URL string handed to the viewer
    parsed,         \* what parseEdgeFunctionUrl returned
    file            \* the S3File entry getFilesByTopic made for the key

urlVars == << reactEnv, upc, payload, url, parsed, file >>

\* The PDF viewer component and the blob URLs it makes.
VARIABLES
    viewer,         \* the mounted PDFViewer: its pdf.url prop, state, ref and cleanup closure
    pdfBlobCache,   \* the module-level Map from pdf.url to blob URL
    loads,          \* the loadPdf calls that went to the edge function, in order
    revoked,        \* the blob URLs handed to URL.revokeObjectURL
    created         \* how many blob URLs URL.createObjectURL has made

viewerVars == << viewer, pdfBlobCache, loads, revoked, created >>

\* The user_progress table and the calls of the boards database service on
\* one (userId, contentId).
VARIABLES
    user_progress,  \* the rows of the table for the pair
    procs,          \* the calls in progress, one per caller
    time0           \* time_spent of the pair before the calls

progressVars == << user_progress, procs, time0 >>

clientVars == << viewerVars, progressVars >>

\* What the compositor's steps leave alone.
outside == << handlerVars, urlVars, clientVars >>

vars == << env, impl, calls, pdfBytes, watermarkText, pc, text, pdfDoc, font,
           fontSize, textWidth, textHeight, pageIdx, raised, returned, thrown, last,
           handlerVars, urlVars, clientVars >>

NoFont == [name |-> "none", ref |-> 0]

NoDoc == [pages |-> << >>, fonts |-> 0]

NoCall == [impl |-> "none", pdfBytes |-> NoBytes, watermarkText |-> "",
           returned |-> NoBytes, raised |-> "none", thrown |-> "none"]

\* ------------------------------------------------------------- the compositor's computations

\* getWatermarkText()
getWatermarkText == IF env # "" THEN env ELSE DEFAULT_WATERMARK_TEXT

\* Mutant: the client services use their parameter as it is, too.
ResolveTextNoFallback(im, wt) == wt

\* Mutant: the client services stamp their own default whatever is passed.
ResolveTextOwnDefault(im, wt) == IF im = "edge" THEN wt ELSE getWatermarkText

\* const text = watermarkText || getWatermarkText()  (client services);
\* the edge compositor uses its parameter as it is.
ResolveText(im, wt) ==
    IF im = "edge" THEN wt
    ELSE IF wt # "" THEN wt ELSE getWatermarkText

\* Mutant: a module-level cache returns the document object of the previous
\* invocation when the same bytes are loaded again.
LoadCached(bytes) ==
    IF bytes = last.pdfBytes /\ last.returned.kind = "pdf"
    THEN [pages |-> last.returned.pages, fonts |-> last.returned.fonts]
    ELSE [pages |-> bytes.pages, fonts |-> bytes.fonts]

\* PDFDocument.load(pdfBytes): a fresh document, the input is not changed.
Load(bytes) == [pages |-> bytes.pages, fonts |-> bytes.fonts]

\* pdfDoc.save()
Save(doc) == PdfBytes(doc.pages, doc.fonts)

\* Math.min(width, height) * 0.06 of the first page.
FontSize(firstPage) == (Min(firstPage.width, firstPage.height) * 6) \div 100

angle == -45

\* Mutant: the lattice of every page is computed from the first page's size.
TileGridOfFirstPage(page, tw, th) ==
    LET diagonalSpacing == (Sqrt(tw * tw + th * th) * 7) \div 10
        horizontalSpacing == (diagonalSpacing * 7071) \div 10000
        verticalSpacing == (diagonalSpacing * 7071) \div 10000
        padding == Max(pdfDoc.pages[1].width, pdfDoc.pages[1].height) \div 10
    IN  [horizontalSpacing |-> horizontalSpacing,
         verticalSpacing |-> verticalSpacing,
         padding |-> padding,
         cols |-> Ceil(pdfDoc.pages[1].width + padding * 2, horizontalSpacing) + 1,
         rows |-> Ceil(pdfDoc.pages[1].height + padding * 2, verticalSpacing) + 1]

\* The lattice of one page.
TileGrid(page, tw, th) ==
    LET diagonalSpacing == (Sqrt(tw * tw + th * th) * 7) \div 10
        horizontalSpacing == (diagonalSpacing * 7071) \div 10000
        verticalSpacing == (diagonalSpacing * 7071) \div 10000
        padding == Max(page.width, page.height) \div 10
    IN  [horizontalSpacing |-> horizontalSpacing,
         verticalSpacing |-> verticalSpacing,
         padding |-> padding,
         cols |-> Ceil(page.width + padding * 2, horizontalSpacing) + 1,
         rows |-> Ceil(page.height + padding * 2, verticalSpacing) + 1]

\* Position of cell (row, col) before centring.
CellX(g, col) == col * g.horizontalSpacing - g.padding

CellY(g, row) == row * g.verticalSpacing - g.padding

\* Mutant: the first comparison of the test flipped.
VisibilityTestFlipped(g, page, tw, th, x, y) ==
    /\ x + tw < -g.padding
    /\ x < page.width + g.padding
    /\ y + th > -g.padding
    /\ y < page.height + g.padding

\* "Only draw if the watermark would be visible on the page"
VisibilityTest(g, page, tw, th, x, y) ==
    /\ x + tw > -g.padding
    /\ x < page.width + g.padding
    /\ y + th > -g.padding
    /\ y < page.height + g.padding

\* Mutant: the loops start at row 0 and column 0.
CellsFromZero(g) ==
    [k \in 1..((g.rows + 1) * (g.cols + 1)) |->
        << (k - 1) \div (g.cols + 1), (k - 1) % (g.cols + 1) >>]

\* The cells in the order the two for loops visit them.
Cells(g) ==
    [k \in 1..((g.rows + 2) * (g.cols + 2)) |->
        << ((k - 1) \div (g.cols + 2)) - 1, ((k - 1) % (g.cols + 2)) - 1 >>]

\* Mutant: the stamp is drawn upright and opaque.
StampUpright(g, c, txt, fnt, fs, tw, th) ==
    [x |-> CellX(g, c[2]) - (tw \div 2),
     y |-> CellY(g, c[1]) - (th \div 2),
     size |-> fs,
     font |-> fnt,
     color |-> << 7, 7, 7 >>,
     opacity |-> 10,
     rotate |-> 0,
     text |-> txt]

\* The options of one page.drawText call for cell c.
Stamp(g, c, txt, fnt, fs, tw, th) ==
    [x |-> CellX(g, c[2]) - (tw \div 2),
     y |-> CellY(g, c[1]) - (th \div 2),
     size |-> fs,
     font |-> fnt,
     color |-> << 7, 7, 7 >>,
     opacity |-> 3,
     rotate |-> angle,
     text |-> txt]

\* Mutant: the page's content stream is overwritten, not extended.
DrawAllOverwriting(page, stamps) == [page EXCEPT !.stamps = stamps, !.body = 0]

\* page.drawText over a run of stamps: text operators appended to the page.
DrawAll(page, stamps) == [page EXCEPT !.stamps = @ \o stamps]

\* Mutant: the page is grown by the padding before it is stamped.
StampPageResizing(page, txt, fnt, fs, tw, th) ==
    LET g == TileGrid(page, tw, th)
        drawn == SelectSeq(Cells(g),
                     LAMBDA c : VisibilityTest(g, page, tw, th, CellX(g, c[2]), CellY(g, c[1])))
        grown == [page EXCEPT !.width = @ + 2 * g.padding, !.height = @ + 2 * g.padding]
    IN  DrawAll(grown, [k \in 1..Len(drawn) |-> Stamp(g, drawn[k], txt, fnt, fs, tw, th)])

\* The body of pages.forEach for one page.
StampPage(page, txt, fnt, fs, tw, th) ==
    LET g == TileGrid(page, tw, th)
        drawn == SelectSeq(Cells(g),
                     LAMBDA c : VisibilityTest(g, page, tw, th, CellX(g, c[2]), CellY(g, c[1])))
    IN  DrawAll(page, [k \in 1..Len(drawn) |-> Stamp(g, drawn[k], txt, fnt, fs, tw, th)])

\* Mutant: every copy lets the error through.
RethrowVerbatim(im, err) == err

\* What the caller observes of an error raised inside: the client services
\* catch it, log it and throw a new Error; the edge compositor has no try.
Rethrow(im, err) == IF im = "edge" THEN err ELSE "Failed to add watermark to PDF"

\* ------------------------------------------------------------- strings

\* A string the code takes apart is a sequence of pieces of text, cut so that
\* every literal the code looks for ("edge-function:", "/watermark-pdf", ":",
\* "http", "http://", "https://", ".pdf") is a run of whole pieces and no piece
\* holds part of one. "" is the empty sequence.
startsWith(s, p) == Len(s) >= Len(p) /\ SubSeq(s, 1, Len(p)) = p

endsWith(s, p) == Len(s) >= Len(p) /\ SubSeq(s, Len(s) - Len(p) + 1, Len(s)) = p

\* s.indexOf(p, from): position of the first occurrence at or after from,
\* counted from 0, or -1.
indexOfFrom(s, p, from) ==
    LET hits == { i \in from..(Len(s) - Len(p)) : SubSeq(s, i + 1, i + Len(p)) = p }
    IN  IF hits = {} THEN -1 ELSE CHOOSE i \in hits : \A j \in hits : i <= j

indexOf(s, p) == indexOfFrom(s, p, 0)

\* s.substring(a, b) and s.substring(a)
substring(s, a, b) == SubSeq(s, a + 1, b)

substringFrom(s, a) == SubSeq(s, a + 1, Len(s))

\* s[i], or "" (undefined) past the end
charAt(s, i) == IF i >= 0 /\ i < Len(s) THEN s[i + 1] ELSE ""

\* s.replace(p, r) with a string pattern: the first occurrence only.
replace(s, p, r) ==
    IF indexOf(s, p) = -1 THEN s
    ELSE substring(s, 0, indexOf(s, p)) \o r \o substringFrom(s, indexOf(s, p) + Len(p))

HttpScheme == << "http", ":", "//" >>

HttpsScheme == << "http", "s", ":", "//" >>

\* s.startsWith("http://") || s.startsWith("https://")
IsHttpUrl(s) == startsWith(s, HttpScheme) \/ startsWith(s, HttpsScheme)

\* ------------------------------------------------------------- the edge function's surroundings

\* A URL that serves a PDF, one that serves a page that is no PDF, one that
\* answers 404.
PdfUrl == HttpsScheme \o << "cdn.example", "/", "notes", ".pdf" >>

BrokenUrl == HttpScheme \o << "cdn.example", "/", "index", ".html" >>

MissingUrl == HttpsScheme \o << "cdn.example", "/", "gone", ".pdf" >>

\* Object keys: one in the default bucket, one in the bucket S3_BUCKET_NAME
\* names.
NotesKey == << "topic", "/", "notes", ".pdf" >>

ArchiveKey == << "topic", "/", "old", ".pdf" >>

DefaultBucket == "Boards-study"

ArchiveBucket == "archive"

ServedPdf == PdfBytes(<< NewPage(1, << Pt(200), Pt(300) >>) >>, 0)

StoredPdf ==
    PdfBytes(<< NewPage(1, << Pt(200), Pt(300) >>), NewPage(2, << Pt(400), Pt(600) >>) >>, 0)

\* fetch(u): the Response
Web(u) ==
    CASE u = PdfUrl -> [ok |-> TRUE, statusText |-> "OK", bytes |-> ServedPdf]
      [] u = BrokenUrl ->
            [ok |-> TRUE, statusText |-> "OK",
             bytes |-> [kind |-> "garbage", pages |-> << >>, fonts |-> 0]]
      [] OTHER -> [ok |-> FALSE, statusText |-> "Not Found", bytes |-> NoBytes]

\* supabase.storage.from(bucket).download(key): { data, error }
Storage(bucket, key) ==
    CASE bucket = DefaultBucket /\ key = NotesKey -> [data |-> StoredPdf, error |-> ""]
      [] bucket = ArchiveBucket /\ key = ArchiveKey ->
            [data |-> PdfBytes(<< >>, 0), error |-> ""]
      [] OTHER -> [data |-> NoBytes, error |-> "Object not found"]

\* req.headers.get("Authorization") of a request without the header
Absent == "null"

ValidToken == "Bearer valid"

ExpiredToken == "Bearer expired"

\* What supabase.auth.getUser() can resolve to for a header: a user, an
\* error, or neither.
GetUserResults(authHeader) ==
    IF authHeader = ValidToken
    THEN { [user |-> "user-1", error |-> ""],
           [user |-> "", error |-> "Auth service unavailable"] }
    ELSE { [user |-> "", error |-> "invalid JWT"],
           [user |-> "", error |-> ""] }

MalformedBody == [json |-> FALSE, pdfUrl |-> << >>, s3Key |-> << >>, watermarkText |-> ""]

\* The bodies sent: text that is no JSON, or an object with the three
\* optional fields (a field left out reads as "").
Bodies ==
    { MalformedBody } \cup
    [json : {TRUE},
     pdfUrl : {<< >>, PdfUrl, MissingUrl},
     s3Key : {<< >>, NotesKey, ArchiveKey, BrokenUrl},
     watermarkText : {"", CustomText}]

Requests ==
    [method : {"OPTIONS", "POST"},
     authorization : {Absent, "", ValidToken, ExpiredToken},
     body : Bodies]

NoRequest == [method |-> "", authorization |-> Absent, body |-> MalformedBody]

NoUser == [user |-> "", error |-> ""]

NoResponse == [status |-> 0, cors |-> FALSE, contentType |-> "", error |-> << >>,
               pdf |-> NoBytes]

\* No request is being served.
HandlerIdle ==
    /\ req = NoRequest
    /\ denoEnv = [WATERMARK_TEXT |-> "", S3_BUCKET_NAME |-> ""]
    /\ hpc = "idle"
    /\ user = NoUser
    /\ watermark = ""
    /\ caught = << >>
    /\ resp = NoResponse
    /\ trace = << >>

NoParse == [ok |-> FALSE, functionUrl |-> << >>, s3Key |-> << >>]

NoFile == [name |-> << >>, url |-> << >>, key |-> << >>, type |-> "", extension |-> ""]

\* The URLs a viewer is opened on: two PDFs served through the edge function
\* and a document opened by its direct URL.
ViewerUrls ==
    { << "edge-function", ":" >> \o HttpsScheme
          \o << "fn.example", "/watermark-pdf", ":" >> \o NotesKey,
      << "edge-function", ":" >> \o HttpsScheme
          \o << "fn.example", "/watermark-pdf", ":" >> \o PdfUrl,
      HttpsScheme \o << "s3.example", "/", "topic", "/", "slides", ".docx" >> }

\* null, as a blob URL
NoBlob == [id |-> 0, doc |-> << >>]

\* No viewer is mounted.
NoViewer ==
    [mounted |-> FALSE, url |-> << >>, isLoading |-> FALSE, pdfBlobUrl |-> NoBlob,
     loadedUrlRef |-> << >>, cleanup |-> [url |-> << >>, blob |-> NoBlob], error |-> ""]

\* Nothing has been viewed: the cache is empty.
ViewerIdle ==
    /\ viewer = NoViewer
    /\ pdfBlobCache = [u \in ViewerUrls |-> NoBlob]
    /\ loads = << >>
    /\ revoked = {}
    /\ created = 0

\* The callers of the progress methods.
Procs == 1..MaxCallers

NoProc == [op |-> "none", at |-> "idle", seconds |-> 0, existing |-> 0,
           completed |-> "unset", time_spent |-> -1]

\* No progress call has been made.
ProgressIdle ==
    /\ user_progress = {}
    /\ procs = [p \in Procs |-> NoProc]
    /\ time0 = 0

\* No URL is being built or parsed.
UrlIdle ==
    /\ reactEnv = [REACT_APP_SUPABASE_FUNCTIONS_URL |-> << >>,
                   REACT_APP_SUPABASE_URL |-> << >>]
    /\ upc = "idle"
    /\ payload = << >>
    /\ url = << >>
    /\ parsed = NoParse
    /\ file = NoFile

\* ------------------------------------------------------------- one invocation

Init ==
    /\ env \in {"", EnvText}
    /\ impl \in Impls
    /\ calls = 1
    /\ pdfBytes \in InputPdfs \cup NotPdf
    /\ watermarkText \in WatermarkArgs(impl)
    /\ pc = "load"
    /\ text = ""
    /\ pdfDoc = NoDoc
    /\ font = NoFont
    /\ fontSize = 0
    /\ textWidth = 0
    /\ textHeight = 0
    /\ pageIdx = 0
    /\ raised = "none"
    /\ returned = NoBytes
    /\ thrown = "none"
    /\ last = NoCall
    /\ HandlerIdle
    /\ UrlIdle
    /\ ViewerIdle
    /\ ProgressIdle

\* text is resolved, then: await PDFDocument.load(pdfBytes); pdfDoc.getPages()
LoadDocument ==
    /\ pc = "load"
    /\ text' = ResolveText(impl, watermarkText)
    /\ IF pdfBytes.kind = "pdf"
       THEN /\ pdfDoc' = Load(pdfBytes)
            /\ pc' = "embed"
            /\ raised' = raised
       ELSE /\ pdfDoc' = pdfDoc
            /\ pc' = "raised"
            /\ raised' = "ParseError"
    /\ UNCHANGED outside
    /\ UNCHANGED << env, impl, calls, pdfBytes, watermarkText, font, fontSize,
                    textWidth, textHeight, pageIdx, returned, thrown, last >>

\* await pdfDoc.embedFont("Helvetica-Bold"): a new font object of the document.
EmbedFont ==
    /\ pc = "embed"
    /\ pdfDoc' = [pdfDoc EXCEPT !.fonts = @ + 1]
    /\ font' = [name |-> "Helvetica-Bold", ref |-> pdfDoc.fonts + 1]
    /\ pc' = "measure"
    /\ UNCHANGED outside
    /\ UNCHANGED << env, impl, calls, pdfBytes, watermarkText, text, fontSize,
                    textWidth, textHeight, pageIdx, raised, returned, thrown, last >>

\* embedFont rejects.
EmbedFontFails ==
    /\ pc = "embed"
    /\ pc' = "raised"
    /\ raised' = "FontEmbedError"
    /\ UNCHANGED outside
    /\ UNCHANGED << env, impl, calls, pdfBytes, watermarkText, text, pdfDoc, font,
                    fontSize, textWidth, textHeight, pageIdx, returned, thrown, last >>

\* Mutant: a document without pages is passed through to save.
MeasurePassingEmpty ==
    /\ pc = "measure"
    /\ fontSize' = IF pdfDoc.pages = << >> THEN 0 ELSE FontSize(pdfDoc.pages[1])
    /\ textWidth' = IF pdfDoc.pages = << >> THEN 0
                    ELSE widthOfTextAtSize(text, FontSize(pdfDoc.pages[1]))
    /\ textHeight' = IF pdfDoc.pages = << >> THEN 0 ELSE FontSize(pdfDoc.pages[1])
    /\ pageIdx' = 1
    /\ pc' = "stamp"
    /\ UNCHANGED outside
    /\ UNCHANGED << env, impl, calls, pdfBytes, watermarkText, text, pdfDoc, font,
                    raised, returned, thrown, last >>

\* pages[0].getSize(), fontSize, textWidth, textHeight; pages[0] is undefined
\* in a document without pages and getSize() on it raises a TypeError.
Measure ==
    /\ pc = "measure"
    /\ IF pdfDoc.pages = << >>
       THEN /\ pc' = "raised"
            /\ raised' = "TypeError"
            /\ UNCHANGED << fontSize, textWidth, textHeight, pageIdx >>
       ELSE /\ fontSize' = FontSize(pdfDoc.pages[1])
            /\ textWidth' = widthOfTextAtSize(text, FontSize(pdfDoc.pages[1]))
            /\ textHeight' = FontSize(pdfDoc.pages[1])
            /\ pageIdx' = 1
            /\ pc' = "stamp"
            /\ raised' = raised
    /\ UNCHANGED outside
    /\ UNCHANGED << env, impl, calls, pdfBytes, watermarkText, text, pdfDoc, font,
                    returned, thrown, last >>

\* Mutant: the font is embedded again for every page.
StampNextPageEmbedding ==
    /\ pc = "stamp"
    /\ pageIdx <= Len(pdfDoc.pages)
    /\ pdfDoc' = [pdfDoc EXCEPT
                     !.fonts = @ + 1,
                     !.pages[pageIdx] =
                         StampPage(@, text, [name |-> "Helvetica-Bold", ref |-> pdfDoc.fonts + 1],
                                   fontSize, textWidth, textHeight)]
    /\ pageIdx' = pageIdx + 1
    /\ UNCHANGED outside
    /\ UNCHANGED << env, impl, calls, pdfBytes, watermarkText, pc, text, font,
                    fontSize, textWidth, textHeight, raised, returned, thrown, last >>

\* Mutant: the font size and text width are derived again from each page.
StampNextPageOwnSize ==
    /\ pc = "stamp"
    /\ pageIdx <= Len(pdfDoc.pages)
    /\ pdfDoc' = [pdfDoc EXCEPT !.pages[pageIdx] =
                      StampPage(@, text, font, FontSize(@),
                                widthOfTextAtSize(text, FontSize(@)), FontSize(@))]
    /\ pageIdx' = pageIdx + 1
    /\ UNCHANGED outside
    /\ UNCHANGED << env, impl, calls, pdfBytes, watermarkText, pc, text, font,
                    fontSize, textWidth, textHeight, raised, returned, thrown, last >>

\* One iteration of pages.forEach.
StampNextPage ==
    /\ pc = "stamp"
    /\ pageIdx <= Len(pdfDoc.pages)
    /\ pdfDoc' = [pdfDoc EXCEPT !.pages[pageIdx] =
                      StampPage(@, text, font, fontSize, textWidth, textHeight)]
    /\ pageIdx' = pageIdx + 1
    /\ UNCHANGED outside
    /\ UNCHANGED << env, impl, calls, pdfBytes, watermarkText, pc, text, font,
                    fontSize, textWidth, textHeight, raised, returned, thrown, last >>

\* A drawText call raises: the document stays as stamped so far.
StampFails ==
    /\ pc = "stamp"
    /\ pageIdx <= Len(pdfDoc.pages)
    /\ pc' = "raised"
    /\ raised' = "DrawError"
    /\ UNCHANGED outside
    /\ UNCHANGED << env, impl, calls, pdfBytes, watermarkText, text, pdfDoc, font,
                    fontSize, textWidth, textHeight, pageIdx, returned, thrown, last >>

\* Mutant: save starts while the last page is still to be stamped.
SaveDocumentEarly ==
    /\ pc = "stamp"
    /\ pageIdx >= Len(pdfDoc.pages)
    /\ returned' = Save(pdfDoc)
    /\ pc' = "returned"
    /\ UNCHANGED outside
    /\ UNCHANGED << env, impl, calls, pdfBytes, watermarkText, text, pdfDoc, font,
                    fontSize, textWidth, textHeight, pageIdx, raised, thrown, last >>

\* await pdfDoc.save(); return watermarkedPdfBytes
SaveDocument ==
    /\ pc = "stamp"
    /\ pageIdx > Len(pdfDoc.pages)
    /\ returned' = Save(pdfDoc)
    /\ pc' = "returned"
    /\ UNCHANGED outside
    /\ UNCHANGED << env, impl, calls, pdfBytes, watermarkText, text, pdfDoc, font,
                    fontSize, textWidth, textHeight, pageIdx, raised, thrown, last >>

\* save rejects.
SaveFails ==
    /\ pc = "stamp"
    /\ pageIdx > Len(pdfDoc.pages)
    /\ pc' = "raised"
    /\ raised' = "SaveError"
    /\ UNCHANGED outside
    /\ UNCHANGED << env, impl, calls, pdfBytes, watermarkText, text, pdfDoc, font,
                    fontSize, textWidth, textHeight, pageIdx, returned, thrown, last >>

\* Mutant: the catch block returns what has been stamped so far.
ThrowReturnsPartial ==
    /\ pc = "raised"
    /\ returned' = Save(pdfDoc)
    /\ pc' = "returned"
    /\ UNCHANGED outside
    /\ UNCHANGED << env, impl, calls, pdfBytes, watermarkText, text, pdfDoc, font,
                    fontSize, textWidth, textHeight, pageIdx, raised, thrown, last >>

\* The catch block of the client services, or the exception leaving the edge
\* compositor: the call ends with an error and no return value.
Throw ==
    /\ pc = "raised"
    /\ thrown' = Rethrow(impl, raised)
    /\ pc' = "thrown"
    /\ UNCHANGED outside
    /\ UNCHANGED << env, impl, calls, pdfBytes, watermarkText, text, pdfDoc, font,
                    fontSize, textWidth, textHeight, pageIdx, raised, returned, last >>

\* ------------------------------------------------------------- further invocations

ThisCall == [impl |-> impl, pdfBytes |-> pdfBytes, watermarkText |-> watermarkText,
             returned |-> returned, raised |-> raised, thrown |-> thrown]

\* A new invocation starts with fresh locals.
Enter(bytes) ==
    /\ calls' = calls + 1
    /\ pdfBytes' = bytes
    /\ last' = ThisCall
    /\ pc' = "load"
    /\ text' = ""
    /\ pdfDoc' = NoDoc
    /\ font' = NoFont
    /\ fontSize' = 0
    /\ textWidth' = 0
    /\ textHeight' = 0
    /\ pageIdx' = 0
    /\ raised' = "none"
    /\ returned' = NoBytes
    /\ thrown' = "none"
    /\ UNCHANGED outside
    /\ UNCHANGED << env, impl, watermarkText >>

\* The caller invokes the compositor again with the same arguments.
InvokeAgain ==
    /\ pc \in {"returned", "thrown"}
    /\ calls < MaxCalls
    /\ Enter(pdfBytes)

\* The caller watermarks the returned document again with the same text.
Reapply ==
    /\ pc = "returned"
    /\ calls < MaxCalls
    /\ Enter(returned)

\* The caller passes the same bytes and the same text to another copy of the
\* compositor; the edge compositor is only ever given a resolved text.
InvokeOther ==
    /\ pc \in {"returned", "thrown"}
    /\ calls < MaxCalls
    /\ watermarkText # ""
    /\ impl' \in Impls \ {impl}
    /\ calls' = calls + 1
    /\ last' = ThisCall
    /\ pc' = "load"
    /\ text' = ""
    /\ pdfDoc' = NoDoc
    /\ font' = NoFont
    /\ fontSize' = 0
    /\ textWidth' = 0
    /\ textHeight' = 0
    /\ pageIdx' = 0
    /\ raised' = "none"
    /\ returned' = NoBytes
    /\ thrown' = "none"
    /\ UNCHANGED outside
    /\ UNCHANGED << env, pdfBytes, watermarkText >>

Next ==
    \/ LoadDocument
    \/ EmbedFont
    \/ EmbedFontFails
    \/ Measure
    \/ StampNextPage
    \/ StampFails
    \/ SaveDocument
    \/ SaveFails
    \/ Throw
    \/ InvokeAgain
    \/ Reapply

Spec == Init /\ [][Next]_vars

\* ------------------------------------------------------------- properties

IsPrefix(a, b) == Len(a) <= Len(b) /\ SubSeq(b, 1, Len(a)) = a

\* The pages pages.forEach has finished in this invocation.
StampedPages ==
    IF pc \in {"stamp", "returned"} THEN 1..(pageIdx - 1) ELSE {}

\* The stamps this invocation has drawn on page i.
NewStamps(i) ==
    SubSeq(pdfDoc.pages[i].stamps, Len(pdfBytes.pages[i].stamps) + 1,
           Len(pdfDoc.pages[i].stamps))

\* C1: a returned document has the pages of the input, in the same order and of
\* the same sizes; each page keeps its original content and its earlier text
\* operators, and only gains text operators after them.
C1_PagesPreserved ==
    pc = "returned" =>
        /\ returned.kind = "pdf"
        /\ Len(returned.pages) = Len(pdfBytes.pages)
        /\ \A i \in 1..Len(pdfBytes.pages) :
              /\ returned.pages[i].width = pdfBytes.pages[i].width
              /\ returned.pages[i].height = pdfBytes.pages[i].height
              /\ returned.pages[i].body = pdfBytes.pages[i].body
              /\ IsPrefix(pdfBytes.pages[i].stamps, returned.pages[i].stamps)

C1_Witness ==
    /\ pc = "returned"
    /\ Len(returned.pages) = 3
    /\ returned.pages[1].width # returned.pages[2].width
    /\ \A i \in 1..3 : Len(returned.pages[i].stamps) > 0

\* C2: a returned single-page document stamped with a non-empty text carries at
\* least one stamp drawn by this invocation.
C2_AtLeastOneStamp ==
    (pc = "returned" /\ Len(pdfBytes.pages) = 1 /\ text # "") =>
        Len(returned.pages[1].stamps) >= Len(pdfBytes.pages[1].stamps) + 1

C2_Witness ==
    /\ pc = "returned"
    /\ Len(pdfBytes.pages) = 1
    /\ text # ""
    /\ Len(returned.pages[1].stamps) > Len(pdfBytes.pages[1].stamps)

\* The grid of page i as this invocation computes it.
GridOf(i) == TileGrid(pdfBytes.pages[i], textWidth, textHeight)

\* Lower-left corners of the horizontalSpacing x verticalSpacing rectangles
\* that lie inside the page, taken every 20 points and at the far edges.
RectCorners(page, g) ==
    LET maxX == page.width - g.horizontalSpacing
        maxY == page.height - g.verticalSpacing
    IN  IF maxX < 0 \/ maxY < 0 THEN {}
        ELSE ({ k * Pt(20) : k \in 0..(maxX \div Pt(20)) } \cup {maxX})
             \X ({ k * Pt(20) : k \in 0..(maxY \div Pt(20)) } \cup {maxY})

\* Distance from coordinate a to the interval [lo, hi].
Gap(a, lo, hi) == IF a < lo THEN lo - a ELSE IF a > hi THEN a - hi ELSE 0

\* The anchor (ax, ay) is within distance d of the rectangle at corner r.
AnchorNear(ax, ay, r, g, d) ==
    LET dx == Gap(ax, r[1], r[1] + g.horizontalSpacing)
        dy == Gap(ay, r[2], r[2] + g.verticalSpacing)
    IN  dx <= d /\ dy <= d /\ dx * dx + dy * dy <= d * d

\* C3: on every stamped page, every horizontalSpacing x verticalSpacing
\* rectangle inside the page has a drawn stamp anchored within padding of it.
C3_NoGap ==
    \A i \in StampedPages :
        LET g == GridOf(i)
            drawn == NewStamps(i)
        IN  \A r \in RectCorners(pdfBytes.pages[i], g) :
                \E k \in 1..Len(drawn) :
                    AnchorNear(drawn[k].x, drawn[k].y, r, g, g.padding)

\* Two open intervals overlap.
Overlap(lo1, hi1, lo2, hi2) == lo1 < hi2 /\ lo2 < hi1

\* The text box of width tw and height th, anchored at (ax, ay) and turned by
\* -45 degrees about the anchor, meets the page: the box and the page overlap
\* on the page's axes (x, y) and on the box's axes (x - y, x + y).
WouldBeVisible(page, tw, th, ax, ay) ==
    /\ Overlap(ax, ax + ((tw + th) * 7071) \div 10000, 0, page.width)
    /\ Overlap(ay - (tw * 7071) \div 10000, ay + (th * 7071) \div 10000, 0, page.height)
    /\ Overlap(ax - ay, ax - ay + (tw * 14142) \div 10000, -page.height, page.width)
    /\ Overlap(ax + ay, ax + ay + (th * 14142) \div 10000, 0, page.width + page.height)

\* C4: on every stamped page, every cell of the iterated range whose stamp
\* would meet the page has been drawn (the visibility test did not reject it).
C4_NeverRejectsVisible ==
    \A i \in StampedPages :
        LET g == GridOf(i)
            drawn == NewStamps(i)
        IN  \A row \in -1..g.rows, col \in -1..g.cols :
                LET ax == CellX(g, col) - (textWidth \div 2)
                    ay == CellY(g, row) - (textHeight \div 2)
                IN  WouldBeVisible(pdfBytes.pages[i], textWidth, textHeight, ax, ay) =>
                        \E k \in 1..Len(drawn) : drawn[k].x = ax /\ drawn[k].y = ay

\* C5: fontSize is 6% of the smaller dimension of the first page, textWidth is
\* the text measured at it, and every stamp this invocation draws, on every
\* page, has that size.
C5_OneFontSize ==
    pc \in {"stamp", "returned"} =>
        LET first == pdfBytes.pages[1]
            expected == (Min(first.width, first.height) * 6) \div 100
        IN  /\ fontSize = expected
            /\ textHeight = expected
            /\ textWidth = (SumWidths(Glyphs(text)) * expected) \div 1000
            /\ \A i \in StampedPages :
                  \A k \in 1..Len(NewStamps(i)) : NewStamps(i)[k].size = expected

C5_Witness ==
    /\ pc = "returned"
    /\ Len(pdfBytes.pages) >= 2
    /\ pdfBytes.pages[2].width > pdfBytes.pages[1].width
    /\ Len(NewStamps(2)) > 0
    /\ NewStamps(2)[1].size = NewStamps(1)[1].size

\* C6: bytes that are no PDF are never parsed into a document and never
\* answered with bytes; bytes are returned only by an invocation in which no
\* step raised and every page was stamped, and they are the saved document.
C6_AllOrNothing ==
    /\ pdfBytes.kind # "pdf" =>
          /\ pc \in {"load", "raised", "thrown"}
          /\ pc # "load" => raised = "ParseError"
          /\ returned = NoBytes
    /\ pc \in {"raised", "thrown"} => returned = NoBytes
    /\ returned # NoBytes =>
          /\ pc = "returned"
          /\ raised = "none"
          /\ pageIdx = Len(pdfDoc.pages) + 1
          /\ returned = PdfBytes(pdfDoc.pages, pdfDoc.fonts)

C6_Witness ==
    /\ pc = "thrown"
    /\ pdfBytes.kind = "garbage"
    /\ raised = "ParseError"
    /\ returned = NoBytes

C8_OneFont ==
    /\ pc \in {"load", "embed"} => font = NoFont
    /\ pc = "embed" => pdfDoc.fonts = pdfBytes.fonts
    /\ pc \in {"measure", "stamp", "returned"} =>
          /\ pdfDoc.fonts = pdfBytes.fonts + 1
          /\ font = [name |-> "Helvetica-Bold", ref |-> pdfBytes.fonts + 1]
    /\ \A i \in StampedPages :
          \A k \in 1..Len(NewStamps(i)) : NewStamps(i)[k].font = font

C8_Witness ==
    /\ pc = "returned"
    /\ Len(pdfDoc.pages) = 3
    /\ pdfDoc.fonts = pdfBytes.fonts + 1
    /\ \A i \in 1..3 : Len(NewStamps(i)) > 1

\* This invocation watermarks the document the previous one returned.
Reapplied == calls > 1 /\ last.returned.kind = "pdf" /\ pdfBytes = last.returned

\* C9: watermarking a watermarked document again keeps, on every page, the
\* original content and the earlier stamps, draws after them, and leaves at
\* least as many stamps; the result differs from the first result.
C9_Stacks ==
    (pc = "returned" /\ Reapplied /\ watermarkText = last.watermarkText) =>
        /\ Len(returned.pages) = Len(last.returned.pages)
        /\ \A i \in 1..Len(last.returned.pages) :
              /\ returned.pages[i].body = last.returned.pages[i].body
              /\ IsPrefix(last.returned.pages[i].stamps, returned.pages[i].stamps)
              /\ Len(returned.pages[i].stamps) >= Len(last.returned.pages[i].stamps)
        /\ returned # last.returned

C9_Witness ==
    /\ pc = "returned"
    /\ Reapplied
    /\ Len(returned.pages) >= 2
    /\ Len(last.returned.pages[2].stamps) > 0
    /\ Len(returned.pages[2].stamps) = 2 * Len(last.returned.pages[2].stamps)

\* This invocation has the arguments of the previous one.
Repeated ==
    calls > 1 /\ pdfBytes = last.pdfBytes /\ watermarkText = last.watermarkText

ZeroPages == pdfBytes.kind = "pdf" /\ pdfBytes.pages = << >>

\* C12: for a parseable document without pages the invocation never reaches
\* the stamping loop or save and never returns bytes; once the font is
\* embedded, the error raised is the TypeError of pages[0].getSize().
C12_ZeroPagesFail ==
    ZeroPages =>
        /\ pc \notin {"stamp", "returned"}
        /\ returned = NoBytes
        /\ pageIdx = 0
        /\ (pc \in {"raised", "thrown"} /\ font # NoFont) => raised = "TypeError"

C12_Witness ==
    /\ ZeroPages
    /\ pc = "thrown"
    /\ raised = "TypeError"
    /\ font # NoFont
    /\ returned = NoBytes

\* The order in which the positions of one invocation follow each other.
StepOrder ==
    { << "load", "embed" >>, << "embed", "measure" >>, << "measure", "stamp" >>,
      << "stamp", "returned" >>,
      << "load", "raised" >>, << "embed", "raised" >>, << "measure", "raised" >>,
      << "stamp", "raised" >>, << "raised", "thrown" >>,
      << "returned", "load" >>, << "thrown", "load" >> }

\* Pages 1..n-1 of doc carry the stamps of exactly one pass over the input
\* page, the pages from n on are as they were loaded.
StampedOnceUpTo(doc, n, txt, fnt, fs, tw, th) ==
    \A i \in 1..Len(doc.pages) :
        doc.pages[i] = IF i < n
                       THEN StampPage(pdfBytes.pages[i], txt, fnt, fs, tw, th)
                       ELSE pdfBytes.pages[i]

\* C13: within one invocation the steps follow each other as load, embedFont,
\* the size derivation, the pages in document order, save: the font is set
\* only by embedFont, the sizes only after it, a step that draws draws on the
\* one page pageIdx with the font embedded and moves to the next page, every
\* page before pageIdx has been stamped exactly once and no later page at all,
\* and bytes are returned only after the last page.
C13_InOrder ==
    [][ /\ pc' # pc => << pc, pc' >> \in StepOrder
        /\ (pc' # "load" /\ font' # font) => (pc = "embed" /\ pc' = "measure")
        /\ (pc' # "load" /\ fontSize' # fontSize) => (pc = "measure" /\ font # NoFont)
        /\ (pc' # "load" /\ pageIdx' # pageIdx) =>
              \/ pc = "measure" /\ pageIdx' = 1
              \/ pc = "stamp" /\ pageIdx <= Len(pdfDoc.pages) /\ pageIdx' = pageIdx + 1
        /\ (pc \notin {"load", "returned", "thrown"} /\ pdfDoc'.pages # pdfDoc.pages) =>
              /\ pc = "stamp" /\ pc' = "stamp"
              /\ font # NoFont
              /\ pageIdx' = pageIdx + 1
              /\ \A i \in 1..Len(pdfDoc.pages) :
                    i # pageIdx => pdfDoc'.pages[i] = pdfDoc.pages[i]
        /\ pc' \in {"stamp", "returned"} =>
              StampedOnceUpTo(pdfDoc', pageIdx', text', font', fontSize', textWidth',
                              textHeight')
        /\ pc' = "returned" =>
              /\ pageIdx' = Len(pdfDoc'.pages) + 1
              /\ returned'.pages = pdfDoc'.pages
      ]_vars

C13_Witness ==
    /\ pc = "returned"
    /\ Len(pdfBytes.pages) = 3
    /\ pageIdx = 4
    /\ \A i \in 1..3 : Len(NewStamps(i)) > 0

\* C14: every stamp this invocation has drawn is rotated by -45 degrees, has
\* the colour (0.7, 0.7, 0.7) and the opacity 0.3 (both in tenths), the font
\* size derived from the first page and the resolved text, whatever the
\* document, its page sizes, the copy called and the environment.
C14_FixedOptions ==
    \A i \in StampedPages :
        \A k \in 1..Len(NewStamps(i)) :
            /\ NewStamps(i)[k].rotate = -45
            /\ NewStamps(i)[k].color = << 7, 7, 7 >>
            /\ NewStamps(i)[k].opacity = 3
            /\ NewStamps(i)[k].size = FontSize(pdfBytes.pages[1])
            /\ NewStamps(i)[k].size = fontSize
            /\ NewStamps(i)[k].text = text
            /\ NewStamps(i)[k].text = ResolveText(impl, watermarkText)

C14_Witness ==
    /\ pc = "returned"
    /\ Len(pdfBytes.pages) = 2
    /\ pdfBytes.pages[1].width # pdfBytes.pages[2].width
    /\ Len(NewStamps(2)) > 0
    /\ NewStamps(2)[1].rotate = -45
    /\ NewStamps(2)[1].opacity = 3
    /\ NewStamps(2)[1].size = FontSize(pdfBytes.pages[1])

\* ------------------------------------------------------------- the empty text

\* Documents for the calls with an empty text: no page or one page, and bytes
\* that are no PDF.
ShortPdfs ==
    { PdfBytes(<< >>, 0) } \cup { PdfBytes(<< NewPage(1, s) >>, 0) : s \in PageSizes }

\* Every copy is called with watermarkText = "".
InitEmptyText ==
    /\ env \in {"", EnvText}
    /\ impl \in Impls
    /\ calls = 1
    /\ pdfBytes \in ShortPdfs \cup NotPdf
    /\ watermarkText = ""
    /\ pc = "load"
    /\ text = ""
    /\ pdfDoc = NoDoc
    /\ font = NoFont
    /\ fontSize = 0
    /\ textWidth = 0
    /\ textHeight = 0
    /\ pageIdx = 0
    /\ raised = "none"
    /\ returned = NoBytes
    /\ thrown = "none"
    /\ last = NoCall
    /\ HandlerIdle
    /\ UrlIdle
    /\ ViewerIdle
    /\ ProgressIdle

\* The steps of a single invocation.
NextOnce ==
    \/ LoadDocument
    \/ EmbedFont
    \/ EmbedFontFails
    \/ Measure
    \/ StampFails
    \/ StampNextPage
    \/ SaveDocument
    \/ SaveFails
    \/ Throw

SpecEmptyText == InitEmptyText /\ [][NextOnce]_vars

\* The sizes have been derived in this invocation.
Measured == pc \in {"stamp", "returned"}

NextCopies ==
    \/ NextOnce
    \/ InvokeOther

\* One document and one text given to one copy after another.
SpecCopies == Init /\ [][NextCopies]_vars

\* This invocation has the arguments of the previous one and runs in another
\* copy of the compositor.
OtherCopy ==
    /\ calls > 1
    /\ last.impl # impl
    /\ pdfBytes = last.pdfBytes
    /\ watermarkText = last.watermarkText
    /\ watermarkText # ""

\* The errors the input alone decides: bytes that are no PDF, no first page.
InputErrors == {"ParseError", "TypeError"}

\* The two copies return the same stamps and fail on the same inputs at the
\* same place.
SameStampsSameFailures ==
    /\ (pc = "returned" /\ last.returned.kind = "pdf") =>
          /\ Len(returned.pages) = Len(last.returned.pages)
          /\ \A i \in 1..Len(returned.pages) :
                returned.pages[i].stamps = last.returned.pages[i].stamps
    /\ last.raised \in InputErrors => pc \notin {"stamp", "returned"}
    /\ last.returned.kind = "pdf" => raised \notin InputErrors
    /\ (raised \in InputErrors /\ last.raised \in InputErrors) => raised = last.raised

C15_WitnessFailure ==
    /\ OtherCopy
    /\ impl = "edge"
    /\ pc = "thrown"
    /\ thrown = "TypeError"
    /\ last.thrown = "Failed to add watermark to PDF"

\* ------------------------------------------------------------- the watermark-pdf handler

compositorVars == << env, impl, calls, pdfBytes, watermarkText, pc, text, pdfDoc, font,
                     fontSize, textWidth, textHeight, pageIdx, raised, returned, thrown,
                     last >>

\* The edge compositor has not been called.
CompositorIdle ==
    /\ env = ""
    /\ impl = "edge"
    /\ calls = 0
    /\ pdfBytes = NoBytes
    /\ watermarkText = ""
    /\ pc = "idle"
    /\ text = ""
    /\ pdfDoc = NoDoc
    /\ font = NoFont
    /\ fontSize = 0
    /\ textWidth = 0
    /\ textHeight = 0
    /\ pageIdx = 0
    /\ raised = "none"
    /\ returned = NoBytes
    /\ thrown = "none"
    /\ last = NoCall

\* A request arrives at serve().
InitHandler ==
    /\ req \in Requests
    /\ denoEnv \in [WATERMARK_TEXT : {"", EnvText}, S3_BUCKET_NAME : {"", ArchiveBucket}]
    /\ hpc = "start"
    /\ user = NoUser
    /\ watermark = ""
    /\ caught = << >>
    /\ resp = NoResponse
    /\ trace = << >>
    /\ CompositorIdle
    /\ UrlIdle
    /\ ViewerIdle
    /\ ProgressIdle

\* return new Response(...): a JSON error body
RespondError(status, message) ==
    /\ resp' = [status |-> status, cors |-> TRUE, contentType |-> "application/json",
                error |-> message, pdf |-> NoBytes]
    /\ hpc' = "done"

\* Mutant: the preflight is answered 204 without the CORS headers.
PreflightBare ==
    /\ hpc = "start"
    /\ req.method = "OPTIONS"
    /\ resp' = [status |-> 204, cors |-> FALSE, contentType |-> "",
                error |-> << >>, pdf |-> NoBytes]
    /\ hpc' = "done"
    /\ UNCHANGED << req, denoEnv, user, watermark, caught, trace >>
    /\ UNCHANGED << compositorVars, urlVars, clientVars >>

\* if (req.method === "OPTIONS") return new Response("ok", { headers: corsHeaders })
Preflight ==
    /\ hpc = "start"
    /\ req.method = "OPTIONS"
    /\ resp' = [status |-> 200, cors |-> TRUE, contentType |-> "text/plain",
                error |-> << >>, pdf |-> NoBytes]
    /\ hpc' = "done"
    /\ UNCHANGED << req, denoEnv, user, watermark, caught, trace >>
    /\ UNCHANGED << compositorVars, urlVars, clientVars >>

\* if (!authHeader): the header is absent or empty.
MissingAuthorization ==
    /\ hpc = "start"
    /\ req.method # "OPTIONS"
    /\ req.authorization \in {Absent, ""}
    /\ RespondError(401, << "Missing authorization header" >>)
    /\ UNCHANGED << req, denoEnv, user, watermark, caught, trace >>
    /\ UNCHANGED << compositorVars, urlVars, clientVars >>

\* createClient(...) with the header; await supabase.auth.getUser()
GetUser ==
    /\ hpc = "start"
    /\ req.method # "OPTIONS"
    /\ req.authorization \notin {Absent, ""}
    /\ user' \in GetUserResults(req.authorization)
    /\ trace' = Append(trace, << "getUser", req.authorization >>)
    /\ hpc' = "auth"
    /\ UNCHANGED << req, denoEnv, watermark, caught, resp >>
    /\ UNCHANGED << compositorVars, urlVars, clientVars >>

\* if (authError || !user)
Unauthorized ==
    /\ hpc = "auth"
    /\ (user.error # "" \/ user.user = "")
    /\ RespondError(401, << "Unauthorized" >>)
    /\ UNCHANGED << req, denoEnv, user, watermark, caught, trace >>
    /\ UNCHANGED << compositorVars, urlVars, clientVars >>

\* Mutant: the body is read whatever getUser resolved to.
ParseBodyUnverified ==
    /\ hpc = "auth"
    /\ trace' = Append(trace, << "json" >>)
    /\ IF req.body.json
       THEN hpc' = "body" /\ caught' = caught
       ELSE hpc' = "caught" /\ caught' = << "SyntaxError" >>
    /\ UNCHANGED << req, denoEnv, user, watermark, resp >>
    /\ UNCHANGED << compositorVars, urlVars, clientVars >>

\* await req.json(): text that is no JSON rejects with a SyntaxError.
ParseBody ==
    /\ hpc = "auth"
    /\ ~(user.error # "" \/ user.user = "")
    /\ trace' = Append(trace, << "json" >>)
    /\ IF req.body.json
       THEN hpc' = "body" /\ caught' = caught
       ELSE hpc' = "caught" /\ caught' = << "SyntaxError" >>
    /\ UNCHANGED << req, denoEnv, user, watermark, resp >>
    /\ UNCHANGED << compositorVars, urlVars, clientVars >>

\* Mutant: the validation is left to the final else of the source selection.
MissingSourceThrows ==
    /\ hpc = "body"
    /\ req.body.pdfUrl = << >>
    /\ req.body.s3Key = << >>
    /\ RespondError(500, << "No valid source provided" >>)
    /\ UNCHANGED << req, denoEnv, user, watermark, caught, trace >>
    /\ UNCHANGED << compositorVars, urlVars, clientVars >>

\* if (!pdfUrl && !s3Key)
MissingSource ==
    /\ hpc = "body"
    /\ req.body.pdfUrl = << >>
    /\ req.body.s3Key = << >>
    /\ RespondError(400, << "Missing pdfUrl or s3Key" >>)
    /\ UNCHANGED << req, denoEnv, user, watermark, caught, trace >>
    /\ UNCHANGED << compositorVars, urlVars, clientVars >>

\* Mutant: the environment value wins over the request's text.
ResolveWatermarkEnvFirst ==
    IF denoEnv.WATERMARK_TEXT # "" THEN denoEnv.WATERMARK_TEXT
    ELSE req.body.watermarkText

\* watermarkText || Deno.env.get("WATERMARK_TEXT") || DEFAULT_WATERMARK_TEXT
ResolveWatermark ==
    IF req.body.watermarkText # "" THEN req.body.watermarkText
    ELSE IF denoEnv.WATERMARK_TEXT # "" THEN denoEnv.WATERMARK_TEXT
    ELSE DEFAULT_WATERMARK_TEXT

\* await addWatermarkToPDF(pdfBytes, watermark): the edge compositor starts.
ApplyWatermark(bytes) ==
    /\ pdfBytes' = bytes
    /\ watermarkText' = ResolveWatermark
    /\ calls' = calls + 1
    /\ pc' = "load"
    /\ hpc' = "watermark"
    /\ caught' = caught
    /\ UNCHANGED << env, impl, text, pdfDoc, font, fontSize, textWidth, textHeight,
                    pageIdx, raised, returned, thrown, last >>

\* throw new Error(...) inside the try block
ThrowInHandler(message) ==
    /\ hpc' = "caught"
    /\ caught' = message
    /\ UNCHANGED compositorVars

\* if (pdfUrl): fetch(pdfUrl)
FetchPdfUrl ==
    /\ hpc = "body"
    /\ req.body.pdfUrl # << >>
    /\ watermark' = ResolveWatermark
    /\ trace' = Append(trace, << "fetch", req.body.pdfUrl >>)
    /\ IF ~IsHttpUrl(req.body.pdfUrl)
       THEN ThrowInHandler(<< "TypeError" >>)  \* fetch rejects what is no http(s) URL
       ELSE IF Web(req.body.pdfUrl).ok
       THEN ApplyWatermark(Web(req.body.pdfUrl).bytes)
       ELSE ThrowInHandler(<< "Failed to fetch PDF: ", Web(req.body.pdfUrl).statusText >>)
    /\ UNCHANGED << req, denoEnv, user, resp >>
    /\ UNCHANGED << urlVars, clientVars >>

\* else if (s3Key) whose value is a URL: fetch(s3Key)
FetchS3KeyUrl ==
    /\ hpc = "body"
    /\ req.body.pdfUrl = << >>
    /\ req.body.s3Key # << >>
    /\ IsHttpUrl(req.body.s3Key)
    /\ watermark' = ResolveWatermark
    /\ trace' = Append(trace, << "fetch", req.body.s3Key >>)
    /\ IF Web(req.body.s3Key).ok
       THEN ApplyWatermark(Web(req.body.s3Key).bytes)
       ELSE ThrowInHandler(<< "Failed to fetch PDF from URL: ",
                              Web(req.body.s3Key).statusText >>)
    /\ UNCHANGED << req, denoEnv, user, resp >>
    /\ UNCHANGED << urlVars, clientVars >>

\* Deno.env.get("S3_BUCKET_NAME") || "Boards-study"
BucketName == IF denoEnv.S3_BUCKET_NAME # "" THEN denoEnv.S3_BUCKET_NAME ELSE DefaultBucket

\* else: supabase.storage.from(bucketName).download(s3Key)
DownloadFromStorage ==
    /\ hpc = "body"
    /\ req.body.pdfUrl = << >>
    /\ req.body.s3Key # << >>
    /\ ~IsHttpUrl(req.body.s3Key)
    /\ watermark' = ResolveWatermark
    /\ trace' = Append(trace, << "download", BucketName, req.body.s3Key >>)
    /\ IF Storage(BucketName, req.body.s3Key).error = ""
       THEN ApplyWatermark(Storage(BucketName, req.body.s3Key).data)
       ELSE ThrowInHandler(<< "Failed to fetch from S3: ",
                              Storage(BucketName, req.body.s3Key).error >>)
    /\ UNCHANGED << req, denoEnv, user, resp >>
    /\ UNCHANGED << urlVars, clientVars >>

\* return new Response(watermarkedPdfBytes, { status: 200, ... })
RespondPdf ==
    /\ hpc = "watermark"
    /\ pc = "returned"
    /\ resp' = [status |-> 200, cors |-> TRUE, contentType |-> "application/pdf",
                error |-> << >>, pdf |-> returned]
    /\ hpc' = "done"
    /\ UNCHANGED << req, denoEnv, user, watermark, caught, trace >>
    /\ UNCHANGED << compositorVars, urlVars, clientVars >>

\* addWatermarkToPDF rejected: the error reaches the catch block.
CatchCompositor ==
    /\ hpc = "watermark"
    /\ pc = "thrown"
    /\ caught' = << thrown >>
    /\ hpc' = "caught"
    /\ UNCHANGED << req, denoEnv, user, watermark, resp, trace >>
    /\ UNCHANGED << compositorVars, urlVars, clientVars >>

\* Mutant: the catch block answers 200 with the message as the body.
InternalErrorAsOk ==
    /\ hpc = "caught"
    /\ resp' = [status |-> 200, cors |-> TRUE, contentType |-> "application/pdf",
                error |-> caught, pdf |-> NoBytes]
    /\ hpc' = "done"
    /\ UNCHANGED << req, denoEnv, user, watermark, caught, trace >>
    /\ UNCHANGED << compositorVars, urlVars, clientVars >>

\* catch (error): status 500 with error.message || "Internal server error"
InternalError ==
    /\ hpc = "caught"
    /\ RespondError(500, IF caught # << >> THEN caught ELSE << "Internal server error" >>)
    /\ UNCHANGED << req, denoEnv, user, watermark, caught, trace >>
    /\ UNCHANGED << compositorVars, urlVars, clientVars >>

NextHandler ==
    \/ Preflight
    \/ MissingAuthorization
    \/ GetUser
    \/ Unauthorized
    \/ ParseBody
    \/ MissingSource
    \/ FetchPdfUrl
    \/ FetchS3KeyUrl
    \/ DownloadFromStorage
    \/ NextOnce
    \/ RespondPdf
    \/ CatchCompositor
    \/ InternalError

SpecHandler == InitHandler /\ [][NextHandler]_vars

\* The handler has made a call of this kind on the outside world.
Called(kind) == \E i \in 1..Len(trace) : trace[i][1] = kind

\* getUser has resolved to a user and no error.
Authenticated ==
    /\ req.authorization \notin {Absent, ""}
    /\ Called("getUser")
    /\ user.user # ""
    /\ user.error = ""

\* Nothing behind the authentication check has happened.
NothingServed ==
    /\ ~Called("json")
    /\ ~Called("fetch")
    /\ ~Called("download")
    /\ calls = 0
    /\ pc = "idle"
    /\ resp.pdf = NoBytes

C16_WitnessRejected ==
    /\ hpc = "done"
    /\ req.method = "POST"
    /\ req.authorization = ExpiredToken
    /\ req.body.pdfUrl = PdfUrl
    /\ resp.status = 401

\* C17: a POST with an empty Authorization header and a pdfUrl that serves a
\* PDF is answered with status 200 and the watermarked PDF as application/pdf.
C17_PublicMode ==
    (hpc = "done" /\ req.method = "POST" /\ req.authorization = ""
        /\ req.body.json /\ req.body.pdfUrl = PdfUrl) =>
        /\ resp.status = 200
        /\ resp.contentType = "application/pdf"
        /\ resp.pdf.kind = "pdf"

\* An authenticated POST whose JSON body has neither pdfUrl nor s3Key.
NoSourceGiven ==
    /\ req.method = "POST"
    /\ Authenticated
    /\ req.body.json
    /\ req.body.pdfUrl = << >>
    /\ req.body.s3Key = << >>

\* C18: an authenticated POST whose body gives neither pdfUrl nor s3Key makes
\* no fetch, no storage download and no call of the compositor, and is
\* answered with status 400 and the error 'Missing pdfUrl or s3Key'.
C18_MissingSource ==
    NoSourceGiven =>
        /\ ~Called("fetch")
        /\ ~Called("download")
        /\ calls = 0
        /\ pc = "idle"
        /\ hpc \in {"auth", "body", "done"}
        /\ hpc = "done" =>
              /\ resp.status = 400
              /\ resp.error = << "Missing pdfUrl or s3Key" >>
              /\ resp.pdf = NoBytes

C18_Witness ==
    /\ NoSourceGiven
    /\ req.body.watermarkText = CustomText
    /\ Called("json")
    /\ hpc = "done"
    /\ resp.status = 400
    /\ resp.error = << "Missing pdfUrl or s3Key" >>

\* C19: an OPTIONS request is answered with status 200 and the CORS headers
\* whatever its Authorization header and body; getUser is not called, the
\* body is not read, nothing is fetched or downloaded and the compositor is
\* not called.
C19_Preflight ==
    req.method = "OPTIONS" =>
        /\ trace = << >>
        /\ user = NoUser
        /\ calls = 0
        /\ pc = "idle"
        /\ hpc \in {"start", "done"}
        /\ hpc = "done" =>
              /\ resp.status = 200
              /\ resp.cors
              /\ resp.pdf = NoBytes

C19_Witness ==
    /\ req.method = "OPTIONS"
    /\ req.authorization = ValidToken
    /\ req.body.json
    /\ req.body.pdfUrl = PdfUrl
    /\ hpc = "done"
    /\ resp.status = 200
    /\ resp.cors
    /\ trace = << >>

\* ------------------------------------------------------------- edge-function: URLs

EdgePrefix == << "edge-function", ":" >>

WatermarkPdfPath == << "/watermark-pdf" >>

\* Values of the two environment variables: the hosted functions domain, the
\* local functions server (with a port), the project URL.
HostedFunctionsUrl == HttpsScheme \o << "myproject", ".functions", ".supabase.co" >>

LocalFunctionsUrl == HttpScheme \o << "localhost", ":", "54321", "/functions/v1" >>

ProjectUrl == HttpsScheme \o << "myproject", ".supabase.co" >>

DefaultFunctionsUrl == HttpsScheme \o << "xbrtqfisytoamfvdmqkp", ".functions", ".supabase.co" >>

ReactEnvs ==
    [REACT_APP_SUPABASE_FUNCTIONS_URL : {<< >>, HostedFunctionsUrl, LocalFunctionsUrl},
     REACT_APP_SUPABASE_URL : {<< >>, ProjectUrl}]

\* getEdgeFunctionUrl(): the same in the S3 service, the boards database
\* service and the watermark service.
getEdgeFunctionUrl ==
    LET functionsUrl ==
            IF reactEnv.REACT_APP_SUPABASE_FUNCTIONS_URL # << >>
            THEN reactEnv.REACT_APP_SUPABASE_FUNCTIONS_URL
            ELSE IF reactEnv.REACT_APP_SUPABASE_URL # << >>
            THEN replace(reactEnv.REACT_APP_SUPABASE_URL, << ".supabase.co" >>,
                         << ".functions", ".supabase.co" >>)
            ELSE DefaultFunctionsUrl
    IN  functionsUrl \o WatermarkPdfPath

\* S3 object keys and PDF URLs: what follows the function URL.
Payloads ==
    { NotesKey,
      << "topic", "/", "SCAN", ".PDF" >>,
      << "topic", "/", "slides", ".docx" >>,
      << "topic", "/", "Notes", ".Pdf" >>,
      << "topic", "/", "REPORT", ".DOCX" >>,
      << "topic", "/", "cover", ".png" >>,
      << "guides", "/watermark-pdf", "/", "howto", ".pdf" >>,
      << "topic", "/", "10", ":", "30 notes", ".pdf" >>,
      PdfUrl,
      BrokenUrl,
      HttpScheme \o << "localhost", ":", "9000", "/", "notes", ".pdf" >>,
      HostedFunctionsUrl \o WatermarkPdfPath \o << "/", "cached", ".pdf" >> }

\* `edge-function:${edgeFunctionUrl}:${key}`
EdgeFunctionUrlOf(functionUrl, key) == EdgePrefix \o functionUrl \o << ":" >> \o key

\* What getSignedUrl of the AWS SDK returns for a key.
SignedUrlOf(key) ==
    HttpsScheme \o << "s3.example", "/", DefaultBucket, "/" >> \o key \o << "?X-Amz-Signature=" >>

isEdgeFunctionUrl(u) == startsWith(u, EdgePrefix)

\* Length of "http://" or "https://" at position i of s, 0 if neither is there.
SchemeAt(s, i) ==
    IF startsWith(substringFrom(s, i), HttpScheme) THEN Len(HttpScheme)
    ELSE IF startsWith(substringFrom(s, i), HttpsScheme) THEN Len(HttpsScheme)
    ELSE 0

\* /(https?:\/\/[^:]+):(https?:\/\/.+)/ matched with group 1 starting at i:
\* a scheme, at least one piece up to the next colon, that colon, a scheme
\* again and at least one more piece.
UrlPatternAt(s, i) ==
    LET colon == indexOfFrom(s, << ":" >>, i + SchemeAt(s, i))
    IN  /\ SchemeAt(s, i) > 0
        /\ colon > i + SchemeAt(s, i)
        /\ SchemeAt(s, colon + 1) > 0
        /\ colon + 1 + SchemeAt(s, colon + 1) < Len(s)

\* content.match(urlPattern): index of the leftmost match and the length of
\* its group 1, or index -1.
MatchUrlPattern(s) ==
    LET starts == { i \in 0..(Len(s) - 1) : UrlPatternAt(s, i) }
        first == CHOOSE i \in starts : \A j \in starts : i <= j
    IN  IF starts = {} THEN [index |-> -1, group1 |-> 0]
        ELSE [index |-> first,
              group1 |-> indexOfFrom(s, << ":" >>, first + SchemeAt(s, first)) - first]

\* Mutant: the content is split at its first colon.
parseAtFirstColon(u) ==
    IF ~isEdgeFunctionUrl(u) THEN NoParse
    ELSE LET content == replace(u, EdgePrefix, << >>)
             colon == indexOf(content, << ":" >>)
         IN  IF colon = -1 THEN NoParse
             ELSE [ok |-> TRUE, functionUrl |-> substring(content, 0, colon),
                   s3Key |-> substringFrom(content, colon + 1)]

\* parseEdgeFunctionUrl(url)
parseEdgeFunctionUrl(u) ==
    IF ~isEdgeFunctionUrl(u) THEN NoParse
    ELSE
    LET content == replace(u, EdgePrefix, << >>)
        watermarkPdfIndex == indexOf(content, WatermarkPdfPath)
        functionUrlEnd == watermarkPdfIndex + Len(WatermarkPdfPath)
        match == MatchUrlPattern(content)
        firstUrlEnd == match.index + match.group1
        firstHttp == indexOf(content, << "http" >>)
        secondHttp == indexOfFrom(content, << "http" >>, firstHttp + Len(<< "http" >>))
        separatorIndex == secondHttp - 1
    IN  IF /\ watermarkPdfIndex # -1
           /\ functionUrlEnd < Len(content)
           /\ charAt(content, functionUrlEnd) = ":"
        THEN [ok |-> TRUE, functionUrl |-> substring(content, 0, functionUrlEnd),
              s3Key |-> substringFrom(content, functionUrlEnd + 1)]
        ELSE IF match.index # -1 /\ charAt(content, firstUrlEnd) = ":"
        THEN [ok |-> TRUE, functionUrl |-> substring(content, 0, firstUrlEnd),
              s3Key |-> substringFrom(content, firstUrlEnd + 1)]
        ELSE IF /\ firstHttp # -1
                /\ secondHttp # -1
                /\ separatorIndex > 0
                /\ charAt(content, separatorIndex) = ":"
        THEN [ok |-> TRUE, functionUrl |-> substring(content, 0, separatorIndex),
              s3Key |-> substringFrom(content, separatorIndex + 1)]
        ELSE NoParse

\* `${this.ENDPOINT}/${this.BUCKET_NAME}/${key}`
PublicUrlOf(key) == HttpsScheme \o << "s3.example", "/", DefaultBucket, "/" >> \o key

\* The frontend is about to show one file.
InitUrl ==
    /\ reactEnv \in ReactEnvs
    /\ upc = "start"
    /\ payload \in Payloads
    /\ url = << >>
    /\ parsed = NoParse
    /\ file = NoFile
    /\ CompositorIdle
    /\ HandlerIdle
    /\ ViewerIdle
    /\ ProgressIdle

\* AWSS3PDFService.getSignedUrl(key, useWatermark) for an object key: the
\* edge-function: form for a PDF to be watermarked, else a signed URL, or the
\* public URL when signing fails.
GetSignedUrl ==
    /\ upc = "start"
    /\ ~IsHttpUrl(payload)
    /\ \E useWatermark \in BOOLEAN :
          IF useWatermark /\ (endsWith(payload, << ".pdf" >>) \/ endsWith(payload, << ".PDF" >>))
          THEN url' = EdgeFunctionUrlOf(getEdgeFunctionUrl, payload)
          ELSE url' \in {SignedUrlOf(payload), PublicUrlOf(payload)}
    /\ upc' = "built"
    /\ UNCHANGED << reactEnv, payload, parsed, file >>
    /\ UNCHANGED << compositorVars, handlerVars, clientVars >>

\* convertToWatermarkedUrl(pdfUrl) of the boards database service
ConvertToWatermarkedUrl ==
    /\ upc = "start"
    /\ payload # << >>
    /\ url' = EdgeFunctionUrlOf(getEdgeFunctionUrl, payload)
    /\ upc' = "built"
    /\ UNCHANGED << reactEnv, payload, parsed, file >>
    /\ UNCHANGED << compositorVars, handlerVars, clientVars >>

\* The viewer calls parseEdgeFunctionUrl(pdf.url).
ParseUrl ==
    /\ upc = "built"
    /\ parsed' = parseEdgeFunctionUrl(url)
    /\ upc' = "parsed"
    /\ UNCHANGED << reactEnv, payload, url, file >>
    /\ UNCHANGED << compositorVars, handlerVars, clientVars >>

\* One piece of text in lower case.
LowerPiece(p) ==
    CASE p \in {".pdf", ".PDF", ".Pdf"} -> ".pdf"
      [] p \in {".docx", ".DOCX"} -> ".docx"
      [] p = "SCAN" -> "scan"
      [] p = "Notes" -> "notes"
      [] p = "REPORT" -> "report"
      [] OTHER -> p

\* s.toLowerCase()
toLowerCase(s) == [i \in 1..Len(s) |-> LowerPiece(s[i])]

\* obj.Key.split("/").pop(): what follows the last "/"
FileNameOf(key) ==
    LET slashes == { i \in 1..Len(key) : key[i] = "/" }
    IN  IF slashes = {} THEN key
        ELSE SubSeq(key, (CHOOSE i \in slashes : \A j \in slashes : j <= i) + 1, Len(key))

\* fileName.split(".").pop()?.toLowerCase(): the lower-cased text after the
\* last dot, which for these names is their last piece without its dot.
ExtensionOf(fileName) ==
    IF fileName = << >> THEN ""
    ELSE CASE LowerPiece(fileName[Len(fileName)]) = ".pdf" -> "pdf"
           [] LowerPiece(fileName[Len(fileName)]) = ".docx" -> "docx"
           [] LowerPiece(fileName[Len(fileName)]) = ".png" -> "png"
           [] OTHER -> LowerPiece(fileName[Len(fileName)])

\* The URLs getSignedUrl(key, useWatermark) can return.
SignedUrlResults(key, useWatermark) ==
    IF useWatermark /\ (endsWith(key, << ".pdf" >>) \/ endsWith(key, << ".PDF" >>))
    THEN { EdgeFunctionUrlOf(getEdgeFunctionUrl, key) }
    ELSE { SignedUrlOf(key), PublicUrlOf(key) }

\* The body of the loop of getFilesByTopic for one listed object: keys that
\* end in .pdf or .docx in lower case get an entry, typed by their extension,
\* with the URL of getSignedUrl(obj.Key, fileType === "pdf").
GetFilesByTopic ==
    /\ upc = "start"
    /\ ~IsHttpUrl(payload)
    /\ \/ endsWith(toLowerCase(payload), << ".pdf" >>)
       \/ endsWith(toLowerCase(payload), << ".docx" >>)
    /\ LET fileName == FileNameOf(payload)
           extension == ExtensionOf(fileName)
           fileType == IF extension = "pdf" THEN "pdf" ELSE "docx"
       IN  \E u \in SignedUrlResults(payload, fileType = "pdf") :
              /\ file' = [name |-> fileName, url |-> u, key |-> payload,
                          type |-> fileType, extension |-> extension]
              /\ url' = u
    /\ upc' = "built"
    /\ UNCHANGED << reactEnv, payload, parsed >>
    /\ UNCHANGED << compositorVars, handlerVars, clientVars >>

NextUrl ==
    \/ GetFilesByTopic
    \/ GetSignedUrl
    \/ ConvertToWatermarkedUrl
    \/ ParseUrl

SpecUrl == InitUrl /\ [][NextUrl]_vars

\* C20: an edge-function: URL built from the function URL F of
\* getEdgeFunctionUrl and a payload k (an object key or an http(s) URL) parses
\* back to functionUrl = F and s3Key = k; a string without the prefix
\* 'edge-function:' parses to null.
C20_RoundTrip ==
    upc = "parsed" =>
        /\ url = EdgeFunctionUrlOf(getEdgeFunctionUrl, payload) =>
              parsed = [ok |-> TRUE, functionUrl |-> getEdgeFunctionUrl, s3Key |-> payload]
        /\ ~startsWith(url, EdgePrefix) => parsed = NoParse

C20_Witness ==
    /\ upc = "parsed"
    /\ reactEnv.REACT_APP_SUPABASE_FUNCTIONS_URL = LocalFunctionsUrl
    /\ IsHttpUrl(payload)
    /\ indexOf(payload, WatermarkPdfPath) # -1
    /\ url = EdgeFunctionUrlOf(getEdgeFunctionUrl, payload)
    /\ parsed.ok
    /\ parsed.functionUrl = LocalFunctionsUrl \o WatermarkPdfPath
    /\ parsed.s3Key = payload

C20_WitnessNull ==
    /\ upc = "parsed"
    /\ url = SignedUrlOf(payload)
    /\ parsed = NoParse

\* C21: the text the handler passes to the edge compositor is the request's
\* watermarkText if that is non-empty, else WATERMARK_TEXT if that is set and
\* non-empty, else 'StudyBoards - Confidential'; it is never empty, it is the
\* text the compositor measures and the text of every stamp it draws.
C21_ResolvedOnce ==
    calls > 0 =>
        /\ watermarkText # ""
        /\ req.body.watermarkText # "" => watermarkText = req.body.watermarkText
        /\ (req.body.watermarkText = "" /\ denoEnv.WATERMARK_TEXT # "") =>
              watermarkText = denoEnv.WATERMARK_TEXT
        /\ (req.body.watermarkText = "" /\ denoEnv.WATERMARK_TEXT = "") =>
              watermarkText = "StudyBoards - Confidential"
        /\ watermark = watermarkText
        /\ pc \notin {"idle", "load"} => text = watermarkText
        /\ \A i \in StampedPages : \A k \in 1..Len(NewStamps(i)) :
              NewStamps(i)[k].text = watermarkText

C21_Witness ==
    /\ calls > 0
    /\ hpc = "done"
    /\ req.body.watermarkText = ""
    /\ denoEnv.WATERMARK_TEXT = EnvText
    /\ resp.status = 200
    /\ Len(resp.pdf.pages[1].stamps) > 0
    /\ resp.pdf.pages[1].stamps[1].text = EnvText

\* C22: every entry of type 'pdf' that getFilesByTopic returns has the URL
\* 'edge-function:<function URL>:<key>', whatever the spelling of the key's
\* extension.
C22_PdfsWatermarked ==
    file.type = "pdf" => file.url = EdgeFunctionUrlOf(getEdgeFunctionUrl, file.key)

\* The cells (row, col) of page i of the input whose position passes the
\* test of the drawing loop, for the sizes of this invocation.
VisibleCells(i) ==
    LET page == pdfBytes.pages[i]
        diagonalSpacing == (Sqrt(textWidth * textWidth + textHeight * textHeight) * 7) \div 10
        spacing == (diagonalSpacing * 7071) \div 10000
        padding == Max(page.width, page.height) \div 10
        cols == Ceil(page.width + 2 * padding, spacing) + 1
        rows == Ceil(page.height + 2 * padding, spacing) + 1
    IN  { c \in (-1..rows) \X (-1..cols) :
            /\ c[2] * spacing - padding + textWidth > -padding
            /\ c[2] * spacing - padding < page.width + padding
            /\ c[1] * spacing - padding + textHeight > -padding
            /\ c[1] * spacing - padding < page.height + padding }

\* The anchor of the stamp of cell c on page i.
AnchorOf(i, c) ==
    LET page == pdfBytes.pages[i]
        diagonalSpacing == (Sqrt(textWidth * textWidth + textHeight * textHeight) * 7) \div 10
        spacing == (diagonalSpacing * 7071) \div 10000
        padding == Max(page.width, page.height) \div 10
    IN  << c[2] * spacing - padding - (textWidth \div 2),
           c[1] * spacing - padding - (textHeight \div 2) >>

\* The pages of a document this invocation has returned.
ReturnedPages == IF pc = "returned" THEN 1..Len(pdfBytes.pages) ELSE {}

\* C23: on every page of a returned document the stamps drawn are those
\* of the cells (row, col), -1 <= row <= rows, -1 <= col <= cols, whose
\* x = col * horizontalSpacing - padding and y = row * verticalSpacing - padding
\* pass the visibility test: one stamp per such cell, at
\* (x - textWidth/2, y - textHeight/2), and no other.
C23_ExactlyVisibleCells ==
    \A i \in ReturnedPages :
        /\ { << NewStamps(i)[k].x, NewStamps(i)[k].y >> : k \in 1..Len(NewStamps(i)) }
              = { AnchorOf(i, c) : c \in VisibleCells(i) }
        /\ Len(NewStamps(i)) = Cardinality(VisibleCells(i))

C23_Witness ==
    /\ pc = "returned"
    /\ Len(pdfBytes.pages) = 2
    /\ pdfBytes.pages[1].width # pdfBytes.pages[2].width
    /\ Cardinality(VisibleCells(2)) > 1
    /\ \E c \in VisibleCells(2) : c[2] = -1
    /\ Len(NewStamps(2)) = Cardinality(VisibleCells(2))

\* Page sizes the lattice is computed for besides those of the documents, in
\* pairs in which the second page is one step wider or one step higher.
ProbeSteps ==
    { << NewPage(0, << Pt(w[1]), Pt(h[1]) >>), NewPage(0, << Pt(w[2]), Pt(h[2]) >>) >> :
        w \in { << 200, 200 >>, << 200, 300 >>, << 300, 300 >>, << 300, 400 >>,
                << 400, 400 >> },
        h \in { << 300, 300 >>, << 300, 400 >>, << 400, 400 >>, << 400, 600 >>,
                << 600, 600 >> } }

\* Page a is no wider and no higher than page b.
FitsIn(a, b) == a.width <= b.width /\ a.height <= b.height

\* Number of stamps one pass draws on a page, for the sizes of this invocation.
StampCount(page) ==
    Len(StampPage(page, text, font, fontSize, textWidth, textHeight).stamps)
        - Len(page.stamps)

\* C24: the lattice of a page comes from that page's own width and height:
\* in a returned document pages of equal size get equal cols, rows and stamps, a page that is no
\* smaller than another in width and height gets at least its cols, rows and
\* number of stamps; and so for any two page sizes under the text and font
\* size of the invocation.
C24_GridPerPage ==
    /\ \A i \in ReturnedPages :
          /\ GridOf(i).cols =
                Ceil(pdfBytes.pages[i].width
                        + 2 * (Max(pdfBytes.pages[i].width, pdfBytes.pages[i].height) \div 10),
                     GridOf(i).horizontalSpacing) + 1
          /\ GridOf(i).rows =
                Ceil(pdfBytes.pages[i].height
                        + 2 * (Max(pdfBytes.pages[i].width, pdfBytes.pages[i].height) \div 10),
                     GridOf(i).verticalSpacing) + 1
          /\ \A j \in ReturnedPages :
                /\ (pdfBytes.pages[i].width = pdfBytes.pages[j].width
                       /\ pdfBytes.pages[i].height = pdfBytes.pages[j].height) =>
                      (GridOf(i) = GridOf(j) /\ NewStamps(i) = NewStamps(j))
                /\ FitsIn(pdfBytes.pages[i], pdfBytes.pages[j]) =>
                      /\ GridOf(i).cols <= GridOf(j).cols
                      /\ GridOf(i).rows <= GridOf(j).rows
                      /\ Len(NewStamps(i)) <= Len(NewStamps(j))
    /\ (pc = "stamp" /\ pageIdx = 1 /\ calls = 1) =>
          \A s \in ProbeSteps :
              (FitsIn(s[1], s[2]) /\ s[1] # s[2]) =>
                  /\ TileGrid(s[1], textWidth, textHeight).cols
                        <= TileGrid(s[2], textWidth, textHeight).cols
                  /\ TileGrid(s[1], textWidth, textHeight).rows
                        <= TileGrid(s[2], textWidth, textHeight).rows
                  /\ StampCount(s[1]) <= StampCount(s[2])

C24_Witness ==
    /\ pc = "returned"
    /\ Len(pdfBytes.pages) = 3
    /\ pdfBytes.pages[2].width = 2 * pdfBytes.pages[1].width
    /\ pdfBytes.pages[2].height = 2 * pdfBytes.pages[1].height
    /\ pdfBytes.pages[3].width = pdfBytes.pages[1].width
    /\ pdfBytes.pages[3].height = pdfBytes.pages[1].height
    /\ NewStamps(1) = NewStamps(3)
    /\ Len(NewStamps(1)) > 0
    /\ GridOf(2).cols > GridOf(1).cols
    /\ Len(NewStamps(2)) > Len(NewStamps(1))

\* The handler runs to its return: every await resolves or rejects and the
\* runtime keeps scheduling the continuation.
SpecHandlerFair == SpecHandler /\ WF_vars(NextHandler)

\* Something has failed behind authentication: an error was thrown in the
\* handler or raised in the compositor.
FailedInside == caught # << >> \/ raised # "none"

\* C25: every request is answered, once: the response is set in a single step
\* and never changed, its status is 200, 400, 401 or 500 and it carries the
\* CORS headers; a request in which a fetch, a download, the parsing of the
\* body or of the PDF, embedFont, drawText or save failed is answered with
\* status 500, a JSON body with the error and no PDF bytes.
C25_OneResponse ==
    /\ [](hpc = "done" => (resp.status \in {200, 400, 401, 500} /\ resp.cors))
    /\ [](hpc # "done" => resp = NoResponse)
    /\ [][resp' # resp => (resp = NoResponse /\ hpc # "done" /\ hpc' = "done")]_vars
    /\ []((hpc = "done" /\ FailedInside) =>
            /\ resp.status = 500
            /\ resp.contentType = "application/json"
            /\ resp.error # << >>
            /\ resp.pdf = NoBytes)
    /\ []((hpc = "done" /\ resp.status = 500) => FailedInside)
    /\ <>(hpc = "done")

C25_Witness ==
    /\ hpc = "done"
    /\ Authenticated
    /\ req.body.s3Key = BrokenUrl
    /\ raised = "ParseError"
    /\ resp.status = 500
    /\ resp.error = << "ParseError" >>
    /\ resp.cors

\* ---------------------------------------------------------------------
\* The clients of the edge function: the viewer's load effect and the
\* download path build the request that the handler then serves.

\* process.env.REACT_APP_WATERMARK_TEXT || "StudyBoards - Confidential"
ClientWatermarkTexts == {DEFAULT_WATERMARK_TEXT, CustomText}

\* The Authorization header made from a session's access token.
BearerTokens == {ValidToken, ExpiredToken}

\* The request has not been sent and pdf.url has been parsed by the viewer.
ClientReady ==
    /\ upc = "parsed"
    /\ hpc = "idle"

\* fetch(functionUrl, { method: "POST", headers, body }) reaches serve().
SendRequest(authorization, pdfUrl, s3Key, wmText) ==
    /\ req' = [method |-> "POST", authorization |-> authorization,
               body |-> [json |-> TRUE, pdfUrl |-> pdfUrl, s3Key |-> s3Key,
                         watermarkText |-> wmText]]
    /\ hpc' = "start"
    /\ UNCHANGED << denoEnv, user, watermark, caught, resp, trace >>
    /\ UNCHANGED << compositorVars, urlVars, clientVars >>

\* loadPdf of the cached version of the viewer: the payload goes out as
\* pdfUrl if it starts with http:// or https://, else as s3Key; the header
\* is empty without a session.
LoadPdf ==
    /\ ClientReady
    /\ isEdgeFunctionUrl(url)
    /\ parsed.ok
    /\ \E authorization \in BearerTokens \cup {""}, w \in ClientWatermarkTexts :
          IF IsHttpUrl(parsed.s3Key)
          THEN SendRequest(authorization, parsed.s3Key, << >>, w)
          ELSE SendRequest(authorization, << >>, parsed.s3Key, w)

\* loadPdf of the first version of the viewer: a session is required and the
\* payload always goes out as pdfUrl.
LoadPdfFirstVersion ==
    /\ ClientReady
    /\ isEdgeFunctionUrl(url)
    /\ parsed.ok
    /\ \E authorization \in BearerTokens, w \in ClientWatermarkTexts :
          SendRequest(authorization, parsed.s3Key, << >>, w)

\* handleDownload: originalUrl and s3Key as they are handed to
\* downloadWithWatermark(originalUrl || pdf.url, pdf.name, "pdf", undefined, s3Key).
\* Its parseEdgeFunctionUrl(pdf.url) is the value the load effect got for
\* the same pdf.url, kept in parsed.
DownloadArgs ==
    LET source == IF isEdgeFunctionUrl(url) THEN parsed.s3Key ELSE file.key
        given == IF isEdgeFunctionUrl(url) THEN parsed.ok ELSE file.key # << >>
        originalUrl == IF given /\ IsHttpUrl(source) THEN source
                       ELSE IF given THEN << >>
                       ELSE url
    IN  [fileUrl |-> IF originalUrl # << >> THEN originalUrl ELSE url,
         s3Key |-> IF given /\ ~IsHttpUrl(source) THEN source ELSE << >>]

\* handleDownload and downloadWithWatermark for a PDF: the body carries
\* pdfUrl: fileUrl and s3Key: s3Key (left out when undefined).
HandleDownload ==
    /\ ClientReady
    /\ \E authorization \in BearerTokens, w \in ClientWatermarkTexts :
          SendRequest(authorization, DownloadArgs.fileUrl, DownloadArgs.s3Key, w)

NextClient ==
    \/ GetFilesByTopic
    \/ GetSignedUrl
    \/ ConvertToWatermarkedUrl
    \/ ParseUrl
    \/ LoadPdf
    \/ LoadPdfFirstVersion
    \/ HandleDownload
    \/ MissingAuthorization
    \/ GetUser
    \/ Unauthorized
    \/ ParseBody
    \/ FetchPdfUrl
    \/ DownloadFromStorage
    \/ NextOnce
    \/ RespondPdf
    \/ CatchCompositor
    \/ InternalError

SpecClient == InitUrl /\ [][NextClient]_vars

\* The sources the handler has read for the request.
Fetched == { trace[i][2] : i \in { j \in 1..Len(trace) : trace[j][1] = "fetch" } }
Downloaded == { trace[i][3] : i \in { j \in 1..Len(trace) : trace[j][1] = "download" } }

\* C26: client and edge function agree on the source of the PDF: the payload
\* of the edge-function URL is fetched over HTTP if and only if it is an
\* http(s) URL and is downloaded from the storage bucket if it is a key, and
\* the handler never calls fetch on a string that is no http(s) URL.
C26_SourcesAgree ==
    (upc = "parsed" /\ parsed.ok) =>
        /\ \A u \in Fetched : IsHttpUrl(u) /\ u = parsed.s3Key
        /\ \A k \in Downloaded : ~IsHttpUrl(k) /\ k = parsed.s3Key

\* ---------------------------------------------------------------------
\* The PDF viewer (the version with pdfBlobCache): mounts, changes of its
\* pdf prop, and loads that finish in any order.

\* The cleanup effect's return function, as closed over the render that
\* installed it: if (pdfBlobUrl && !pdfBlobCache.has(pdf.url)) revoke.
CleanupOf(v, cache) ==
    IF v.cleanup.blob # NoBlob /\ cache[v.cleanup.url] = NoBlob
    THEN {v.cleanup.blob.id}
    ELSE {}

\* The dependencies [pdf.url, pdfBlobUrl] differ from those of the installed
\* cleanup effect.
DepsChanged(v) == v.url # v.cleanup.url \/ v.pdfBlobUrl # v.cleanup.blob

\* A render of v: the blob URLs the outgoing cleanup revokes, and v with the
\* cleanup effect of this render installed.
Revocations(v, cache) == IF DepsChanged(v) THEN CleanupOf(v, cache) ELSE {}

Rendered(v) == [v EXCEPT !.cleanup = [url |-> v.url, blob |-> v.pdfBlobUrl]]

\* pdfBlobCache.get(pdf.url) is undefined.
NotCached(v) == pdfBlobCache[v.url] = NoBlob

\* The load effect for the rendered viewer v, rev being the blob URLs revoked
\* so far: skipped if this URL is loaded, answered from the cache, sent to
\* the edge function, or (a direct URL) shown as it is.
LoadEffect(v, rev) ==
    IF v.loadedUrlRef = v.url /\ v.pdfBlobUrl # NoBlob
    THEN /\ viewer' = v
         /\ revoked' = rev
         /\ loads' = loads
    ELSE IF ~NotCached(v)
    THEN LET shown == [v EXCEPT !.pdfBlobUrl = pdfBlobCache[v.url],
                                !.isLoading = FALSE,
                                !.loadedUrlRef = v.url]
         IN  /\ viewer' = Rendered(shown)
             /\ revoked' = rev \cup Revocations(shown, pdfBlobCache)
             /\ loads' = loads
    ELSE IF isEdgeFunctionUrl(v.url)
    THEN /\ Len(loads) < MaxLoads
         /\ viewer' = [v EXCEPT !.isLoading = TRUE, !.error = ""]
         /\ revoked' = rev
         /\ loads' = Append(loads, [url |-> v.url, live |-> TRUE, state |-> "inflight"])
    ELSE LET shown == [v EXCEPT !.pdfBlobUrl = NoBlob, !.isLoading = FALSE, !.error = ""]
         IN  /\ viewer' = Rendered(shown)
             /\ revoked' = rev \cup Revocations(shown, pdfBlobCache)
             /\ loads' = loads

\* <PDFViewer pdf={...}/> is mounted: the state starts from the cache, then
\* the effects run.
Mount ==
    /\ ~viewer.mounted
    /\ \E u \in ViewerUrls :
          LET cachedBlobUrl == pdfBlobCache[u]
              v == [mounted |-> TRUE, url |-> u,
                    isLoading |-> (cachedBlobUrl = NoBlob),
                    pdfBlobUrl |-> cachedBlobUrl,
                    loadedUrlRef |-> IF cachedBlobUrl # NoBlob THEN u ELSE << >>,
                    cleanup |-> [url |-> u, blob |-> cachedBlobUrl],
                    error |-> ""]
          IN  LoadEffect(v, revoked)
    /\ UNCHANGED << pdfBlobCache, created >>
    /\ UNCHANGED << compositorVars, handlerVars, urlVars, progressVars >>

\* The parent hands the mounted viewer another pdf: the outgoing cleanup
\* runs, then the load effect for the new pdf.url.
ChangeProp ==
    /\ viewer.mounted
    /\ \E u \in ViewerUrls \ {viewer.url} :
          LET v == [viewer EXCEPT !.url = u]
          IN  LoadEffect(Rendered(v), revoked \cup Revocations(v, pdfBlobCache))
    /\ UNCHANGED << pdfBlobCache, created >>
    /\ UNCHANGED << compositorVars, handlerVars, urlVars, progressVars >>

\* The viewer is closed: its cleanup runs; its loads go on, their state
\* updates fall on an unmounted component.
Unmount ==
    /\ viewer.mounted
    /\ revoked' = revoked \cup CleanupOf(viewer, pdfBlobCache)
    /\ viewer' = NoViewer
    /\ loads' = [i \in 1..Len(loads) |-> [loads[i] EXCEPT !.live = FALSE]]
    /\ UNCHANGED << pdfBlobCache, created >>
    /\ UNCHANGED << compositorVars, handlerVars, urlVars, progressVars >>

\* A response arrives with status 200: the blob URL is made, cached under
\* the pdf.url the load was started for, and set as the viewer's state.
LoadSucceeds ==
    \E i \in 1..Len(loads) :
        /\ loads[i].state = "inflight"
        /\ LET blobUrl == [id |-> created + 1, doc |-> loads[i].url]
               cache == [pdfBlobCache EXCEPT ![loads[i].url] = blobUrl]
               shown == [viewer EXCEPT !.pdfBlobUrl = blobUrl,
                                       !.loadedUrlRef = loads[i].url,
                                       !.isLoading = FALSE]
           IN  /\ created' = created + 1
               /\ pdfBlobCache' = cache
               /\ loads' = [loads EXCEPT ![i].state = "done"]
               /\ IF loads[i].live
                  THEN /\ viewer' = Rendered(shown)
                       /\ revoked' = revoked \cup Revocations(shown, cache)
                  ELSE UNCHANGED << viewer, revoked >>
        /\ UNCHANGED << compositorVars, handlerVars, urlVars, progressVars >>

\* The request fails or is answered with an error status: the catch block
\* sets the error, finally ends the loading state.
LoadFails ==
    \E i \in 1..Len(loads) :
        /\ loads[i].state = "inflight"
        /\ loads' = [loads EXCEPT ![i].state = "failed"]
        /\ IF loads[i].live
           THEN viewer' = [viewer EXCEPT !.error = "Failed to load PDF", !.isLoading = FALSE]
           ELSE UNCHANGED viewer
        /\ UNCHANGED << pdfBlobCache, revoked, created >>
        /\ UNCHANGED << compositorVars, handlerVars, urlVars, progressVars >>

InitViewer ==
    /\ CompositorIdle
    /\ HandlerIdle
    /\ UrlIdle
    /\ ViewerIdle
    /\ ProgressIdle

NextViewer ==
    \/ Mount
    \/ ChangeProp
    \/ Unmount
    \/ LoadSucceeds
    \/ LoadFails

SpecViewer == InitViewer /\ [][NextViewer]_vars

\* A load of this viewer is still on its way.
LoadPending == \E i \in 1..Len(loads) : loads[i].live /\ loads[i].state = "inflight"

\* C27: a blob URL that is in pdfBlobCache is never revoked, and a viewer
\* whose pdf.url is cached is not in the loading state unless a load it
\* started before is still on its way.
C27_CacheKept ==
    /\ \A u \in ViewerUrls :
          pdfBlobCache[u] # NoBlob => pdfBlobCache[u].id \notin revoked
    /\ (viewer.mounted /\ viewer.isLoading /\ pdfBlobCache[viewer.url] # NoBlob)
          => LoadPending

\* C28: once no load of the viewer is on its way, the blob in the iframe
\* is the one fetched for the current pdf.url.
C28_CurrentDocument ==
    (viewer.mounted /\ ~LoadPending /\ viewer.pdfBlobUrl # NoBlob)
        => viewer.pdfBlobUrl.doc = viewer.url

\* ---------------------------------------------------------------------
\* The progress methods of the boards database service, called
\* concurrently for one (userId, contentId). Every await is a step.

\* Rows the table may hold for the pair before the calls.
StoredProgress == { {} } \cup { { [id |-> 1, completed |-> FALSE, time_spent |-> t] } : t \in {0, 60} }

\* additionalSeconds
Seconds == {5, 7}

NoRow == [id |-> 0, completed |-> FALSE, time_spent |-> 0]

\* getUserProgress: .select("*").eq(...).eq(...).single() gives the row if
\* there is exactly one; with no row or several, PostgREST answers with an
\* error and the method returns null.
getUserProgress ==
    IF Cardinality(user_progress) = 1
    THEN CHOOSE r \in user_progress : TRUE
    ELSE NoRow

InitProgress ==
    /\ user_progress \in StoredProgress
    /\ time0 = getUserProgress.time_spent
    /\ procs = [p \in Procs |-> NoProc]
    /\ CompositorIdle
    /\ HandlerIdle
    /\ UrlIdle
    /\ ViewerIdle

\* A step of caller p that ends in new, leaving the table alone.
Proceed(p, new) ==
    /\ procs' = [procs EXCEPT ![p] = new]
    /\ UNCHANGED << user_progress, time0 >>
    /\ UNCHANGED << compositorVars, handlerVars, urlVars, viewerVars >>

\* upsertUserProgress(userId, contentId, { time_spent })
upsertUserProgress(p) ==
    /\ procs[p].at = "idle"
    /\ Proceed(p, [procs[p] EXCEPT !.op = "upsertUserProgress", !.at = "check",
                                   !.time_spent = 30])

\* markAsCompleted: upsertUserProgress(..., { completed: true, completed_at })
markAsCompleted(p) ==
    /\ procs[p].at = "idle"
    /\ Proceed(p, [procs[p] EXCEPT !.op = "markAsCompleted", !.at = "check",
                                   !.completed = "true"])

\* updateTimeSpent(userId, contentId, additionalSeconds) is called.
updateTimeSpent(p) ==
    /\ procs[p].at = "idle"
    /\ \E s \in Seconds :
          Proceed(p, [procs[p] EXCEPT !.op = "updateTimeSpent", !.at = "read",
                                      !.seconds = s])

\* updateTimeSpent: existing = await getUserProgress(...);
\* time_spent: (existing?.time_spent || 0) + additionalSeconds
ReadTimeSpent(p) ==
    /\ procs[p].at = "read"
    /\ Proceed(p, [procs[p] EXCEPT !.at = "check",
                                   !.time_spent = getUserProgress.time_spent + procs[p].seconds])

\* upsertUserProgress: existing = await this.getUserProgress(...)
CheckExisting(p) ==
    /\ procs[p].at = "check"
    /\ Proceed(p, [procs[p] EXCEPT !.at = "write", !.existing = getUserProgress.id])

\* The row with the fields of progress that are given written over it.
Updated(r, progress) ==
    [r EXCEPT !.completed = IF progress.completed = "true" THEN TRUE ELSE @,
              !.time_spent = IF progress.time_spent >= 0 THEN progress.time_spent ELSE @]

\* if (existing): .update({ ...progress }).eq("id", existing.id)
UpdateRow(p) ==
    /\ procs[p].at = "write"
    /\ procs[p].existing # 0
    /\ user_progress' = { IF r.id = procs[p].existing THEN Updated(r, procs[p]) ELSE r :
                            r \in user_progress }
    /\ procs' = [procs EXCEPT ![p].at = "done"]
    /\ UNCHANGED time0
    /\ UNCHANGED << compositorVars, handlerVars, urlVars, viewerVars >>

\* else: .insert({ user_id, content_id, completed: progress.completed || false,
\* time_spent: progress.time_spent || 0 }); the id comes from the sequence.
InsertRow(p) ==
    /\ procs[p].at = "write"
    /\ procs[p].existing = 0
    /\ user_progress' = user_progress \cup
           { [id |-> Cardinality(user_progress) + 1,
              completed |-> (procs[p].completed = "true"),
              time_spent |-> IF procs[p].time_spent >= 0 THEN procs[p].time_spent ELSE 0] }
    /\ procs' = [procs EXCEPT ![p].at = "done"]
    /\ UNCHANGED time0
    /\ UNCHANGED << compositorVars, handlerVars, urlVars, viewerVars >>

NextProgress ==
    \E p \in Procs :
        \/ upsertUserProgress(p)
        \/ markAsCompleted(p)
        \/ updateTimeSpent(p)
        \/ ReadTimeSpent(p)
        \/ CheckExisting(p)
        \/ UpdateRow(p)
        \/ InsertRow(p)

SpecProgress == InitProgress /\ [][NextProgress]_vars

\* C29: the table holds at most one row for the pair.
C29_OneRow == Cardinality(user_progress) <= 1

RECURSIVE SecondsOf(_)
\* The sum of additionalSeconds over the callers in S.
SecondsOf(S) ==
    IF S = {} THEN 0
    ELSE LET p == CHOOSE q \in S : TRUE
         IN  procs[p].seconds + SecondsOf(S \ {p})

\* All calls made are updateTimeSpent or markAsCompleted and have returned.
TimeCallsDone ==
    /\ \A p \in Procs : procs[p].op \in {"updateTimeSpent", "markAsCompleted"}
    /\ \A p \in Procs : procs[p].at = "done"

\* C30: when the updateTimeSpent and markAsCompleted calls on a pair with
\* one row have returned, time_spent is the initial value plus the sum of
\* all additionalSeconds, and completed is true if markAsCompleted was called.
C30_NoLostUpdate ==
    (TimeCallsDone /\ Cardinality(user_progress) = 1) =>
        /\ getUserProgress.time_spent = time0 + SecondsOf(Procs)
        /\ (\E p \in Procs : procs[p].op = "markAsCompleted") => getUserProgress.completed

====
